---- MODULE Spec2Model ----
(***************************************************************************)
(* Processes, signals and links of the lunatic runtime.                    *)
(*                                                                         *)
(* The host calls of src/src/api/process.rs (spawn, inherit_spawn, link,   *)
(* unlink, die_when_link_dies, this, id) and Module::spawn of              *)
(* src/src/module.rs are translated from their code.  The process task     *)
(* (crate::process::new), the handle's send (WasmProcess::send) and the    *)
(* channel are not part of the sources at hand; they follow sections 4.H,  *)
(* 5 and 9 of the specification.                                           *)
(***************************************************************************)
EXTENDS Integers, Sequences, FiniteSets, TLC

\* ------------------------------------------------------------------ bounds
MaxProcs == 3
MaxOps == 2

Procs == 1..MaxProcs
\* Values of the i64 link argument of spawn, inherit_spawn and link.  The code
\* compares the argument with 0 only and carries every other value along
\* unchanged, so 0 and two other values stand for all of i64.
LinkArgs == {0, 1, 2}

\* ------------------------------------------------------------- Option<i64>
None == <<>>
Some(t) == <<t>>

\* ------------------------------------------------------------------ Signal
Link(tag, peer) ==
    [type |-> "Link", tag |-> tag, peer |-> peer, reason |-> "none", flag |-> FALSE]
UnLink(peer) ==
    [type |-> "UnLink", tag |-> None, peer |-> peer, reason |-> "none", flag |-> FALSE]
Kill ==
    [type |-> "Kill", tag |-> None, peer |-> 0, reason |-> "none", flag |-> FALSE]
DieWhenLinkDies(flag) ==
    [type |-> "DieWhenLinkDies", tag |-> None, peer |-> 0, reason |-> "none", flag |-> flag]
LinkDied(id, tag, reason) ==
    [type |-> "LinkDied", tag |-> tag, peer |-> id, reason |-> reason, flag |-> FALSE]
NoSignal ==
    [type |-> "none", tag |-> None, peer |-> 0, reason |-> "none", flag |-> FALSE]

VARIABLES
    st,        \* st[p]: "none" | "created" | "select" | "wasm" | "dead" | "aborted"
    reason,    \* reason[p]: why p terminated
    mailbox,   \* mailbox[p]: the signal channel of p
    links,     \* links[p]: peer id -> Option tag
    die,       \* die[p]: die_when_link_dies
    msgs,      \* msgs[p]: the message mailbox of p
    procTab,   \* procTab[p]: resources.processes of p, resource id -> process id
    cont,      \* cont[p]: the position of p inside Module::spawn
    mem,       \* mem[p]: the UUID last written to p's memory by id, 0 before
    ops,       \* host calls made and Kill signals sent from outside so far
    parent,    \* parent[c]: the process that spawned c and the link it asked for
    hist,      \* hist[p]: the signals p has handled, in order
    enq,       \* enq[p]: the signals put into p's channel, in order
    proto,     \* proto[c]: the steps of Module::spawn taken for child c
    buffered   \* buffered[p]: p asked for LinkDied to be buffered, see BufferedLink

\* The resources of the guests, the environments and the registries.
VARIABLES
    configs,       \* configs[c]: resources.configs of c, resource id -> EnvConfig
    environments,  \* environments[c]: resources.environments of c, id -> environment
    modules,       \* modules[c]: resources.modules of c, id -> environment of the module
    processes,     \* processes[c]: resources.processes of c, id -> process
    errors,        \* errors[c]: the error resources of c
    envs,          \* envs[e]: the config snapshot and the registry of environment e
    envOf,         \* envOf[c]: the environment of the module c was spawned from, 0: no c
    out,           \* out[c]: how the last host call of c ended
    calls,         \* host calls made so far
    spawned        \* processes spawned so far

\* The decoding of the arguments of one host call.
VARIABLES
    req,           \* the arguments and the instance memory
    resp           \* the outcome

\* The linker of an environment.
VARIABLES
    filter,        \* namespace_filter
    linker         \* the host calls registered

\* The fuel of the store of one process.
VARIABLES
    max_fuel_arg,     \* max_fuel as given to create_config
    injection_count,  \* injections of fuel the store may still make
    fuel,             \* instructions the store may run before it is out of fuel
    consumed,         \* instructions the guest has run
    yields,           \* times the guest has yielded to the scheduler for fuel
    run,              \* "running" | "yielded" | "ended"
    exit_reason       \* why the process ended

procvars == <<st, reason, mailbox, links, die, msgs, procTab, cont, mem, ops,
              parent, hist, enq, proto, buffered>>
hostvars == <<configs, environments, modules, processes, errors, envs, envOf,
              out, calls, spawned>>
decvars == <<req, resp>>
linkvars == <<filter, linker>>
fuelvars == <<max_fuel_arg, injection_count, fuel, consumed, yields, run, exit_reason>>

vars == <<procvars, hostvars, decvars, linkvars, fuelvars>>

NoCont == [phase |-> 0, child |-> 0, tag |-> None]
NoParent == [id |-> 0, link |-> None]

ReceiverExists(q) == st[q] \in {"created", "select", "wasm"}

Terminated(q) == st[q] \in {"dead", "aborted"}


\* ---------------------------------------------------------------- channel
\* WasmProcess::send: the signal is appended to the receiver's channel; when
\* the receiver is gone the send is dropped without an error.
WasmProcess_send(mb, q, sig) ==
    IF ReceiverExists(q) THEN [mb EXCEPT ![q] = Append(@, sig)] ELSE mb

\* A channel that hands out the newest signal first.
try_send_Front(mb, q, sig) ==
    [mb EXCEPT ![q] = <<sig>> \o @]

\* A try_send that finds the channel closed: nothing is put into it.
try_send_Closed(mb, q, sig) == mb

\* Sender::try_send on the caller's own signal_mailbox.
try_send(mb, q, sig) ==
    [mb EXCEPT ![q] = Append(@, sig)]

\* The log of the signals put into a channel: a send that reaches a receiver
\* is recorded after all earlier ones.
Logged(log, q, sig) ==
    IF ReceiverExists(q) THEN [log EXCEPT ![q] = Append(@, sig)] ELSE log

\* A table whose handles stop resolving when their process has terminated.
Resolves_Live(p, process_id) ==
    process_id \in 1..Len(procTab[p]) /\ ~Terminated(procTab[p][process_id])

\* ResourceTable of process handles: add returns the new resource id.
Resolves(p, process_id) == process_id \in 1..Len(procTab[p])

MinOf(S) == CHOOSE x \in S : \A y \in S : x <= y

\* -------------------------------------------------------------- termination
RECURSIVE Notify(_, _, _, _)
Notify(mb, p, peers, why) ==
    IF peers = {} THEN mb
    ELSE LET q == MinOf(peers)
         IN  Notify(WasmProcess_send(mb, q, LinkDied(p, links[p][q], why)),
                    p, peers \ {q}, why)

RECURSIVE NotifyLog(_, _, _, _)
NotifyLog(log, p, peers, why) ==
    IF peers = {} THEN log
    ELSE LET q == MinOf(peers)
         IN  NotifyLog(Logged(log, q, LinkDied(p, links[p][q], why)),
                       p, peers \ {q}, why)

\* Termination that notifies one peer only.
NotifiedPeers_One(p) == IF links[p] = <<>> THEN {} ELSE {MinOf(DOMAIN links[p])}

\* The peers a terminating process notifies.
NotifiedPeers(p) == DOMAIN links[p]

\* A termination that leaves a child created inside Module::spawn behind.
Exit_Alone(p, why) ==
    LET mb  == Notify(mailbox, p, NotifiedPeers(p), why)
        log == NotifyLog(enq, p, NotifiedPeers(p), why)
    IN  /\ st' = [st EXCEPT ![p] = "dead"]
        /\ reason' = [reason EXCEPT ![p] = why]
        /\ mailbox' = [mb EXCEPT ![p] = <<>>]
        /\ enq' = [log EXCEPT ![p] = <<>>]
        /\ hist' = [hist EXCEPT ![p] = <<>>]
        /\ links' = [links EXCEPT ![p] = <<>>]
        /\ msgs' = [msgs EXCEPT ![p] = <<>>]
        /\ buffered' = [buffered EXCEPT ![p] = FALSE]
        /\ cont' = [cont EXCEPT ![p] = NoCont]
        /\ procTab' = [procTab EXCEPT ![p] = <<>>]
        /\ mem' = [mem EXCEPT ![p] = 0]

\* The process task ends: every linked peer is sent LinkDied, then the
\* receiver, the links, the messages and the resources of p are dropped, and
\* so is a child that p had created inside Module::spawn but not yet handed
\* to the scheduler.
Exit(p, why) ==
    LET child == IF cont[p].phase \in {1, 2} THEN cont[p].child ELSE 0
        gone  == IF child # 0 THEN {p, child} ELSE {p}
        mb    == Notify(mailbox, p, NotifiedPeers(p), why)
        log   == NotifyLog(enq, p, NotifiedPeers(p), why)
    IN  /\ st' = [q \in Procs |-> IF q = p THEN "dead"
                                  ELSE IF q = child THEN "aborted" ELSE st[q]]
        /\ reason' = [reason EXCEPT ![p] = why]
        /\ mailbox' = [q \in Procs |-> IF q \in gone THEN <<>> ELSE mb[q]]
        /\ enq' = [q \in Procs |-> IF q \in gone THEN <<>> ELSE log[q]]
        /\ hist' = [hist EXCEPT ![p] = <<>>]
        /\ links' = [links EXCEPT ![p] = <<>>]
        /\ msgs' = [msgs EXCEPT ![p] = <<>>]
        /\ buffered' = [buffered EXCEPT ![p] = FALSE]
        /\ cont' = [cont EXCEPT ![p] = NoCont]
        /\ procTab' = [procTab EXCEPT ![p] = <<>>]
        /\ mem' = [mem EXCEPT ![p] = 0]

InitProcs ==
    /\ st = [q \in Procs |-> IF q = 1 THEN "select" ELSE "none"]
    /\ reason = [q \in Procs |-> "none"]
    /\ mailbox = [q \in Procs |-> <<>>]
    /\ links = [q \in Procs |-> <<>>]
    /\ die = [q \in Procs |-> TRUE]
    /\ msgs = [q \in Procs |-> <<>>]
    /\ procTab = [q \in Procs |-> <<>>]
    /\ cont = [q \in Procs |-> NoCont]
    /\ mem = [q \in Procs |-> 0]
    /\ ops = 0
    /\ parent = [q \in Procs |-> NoParent]
    /\ hist = [q \in Procs |-> <<>>]
    /\ enq = [q \in Procs |-> <<>>]
    /\ proto = [q \in Procs |-> <<>>]
    /\ buffered = [q \in Procs |-> FALSE]


\* ------------------------------------------------------- the process task
\* The task of a process serves its signal channel before it polls the Wasm
\* future: signals are taken from the head of the channel, one at a time.
Selecting(p) == st[p] = "select" /\ mailbox[p] # <<>>

Insert(f, k, v) == [x \in DOMAIN f \cup {k} |-> IF x = k THEN v ELSE f[x]]

\* A removal that leaves the map as it is.
Remove_Nothing(f, k) == f

Remove(f, k) == [x \in DOMAIN f \ {k} |-> f[x]]

\* A Link that overwrites the tag of a peer already in links.
LinksAfterLink_Overwrite(l, tag, peer) == Insert(l, peer, tag)

\* Link(tag, peer): a peer already in links is left as it is; a new peer is
\* inserted and, when it is already dead, LinkDied is scheduled to self.
LinksAfterLink(l, tag, peer) ==
    IF peer \in DOMAIN l THEN l ELSE Insert(l, peer, tag)

\* A Link handler that never looks whether the peer is dead.
HandleLink_NoLate(p) ==
    LET sig == Head(mailbox[p])
    IN  /\ Selecting(p)
        /\ sig.type = "Link"
        /\ links' = [links EXCEPT ![p] = LinksAfterLink(@, sig.tag, sig.peer)]
        /\ mailbox' = [mailbox EXCEPT ![p] = Tail(@)]
        /\ hist' = [hist EXCEPT ![p] = Append(@, sig)]
        /\ UNCHANGED <<mem, st, reason, die, msgs, procTab, cont, ops, parent,
                       enq, proto, buffered>>

HandleLink(p) ==
    LET sig == Head(mailbox[p])
        late == sig.peer \notin DOMAIN links[p] /\ Terminated(sig.peer)
        died == LinkDied(sig.peer, sig.tag, reason[sig.peer])
    IN  /\ Selecting(p)
        /\ sig.type = "Link"
        /\ links' = [links EXCEPT ![p] = LinksAfterLink(@, sig.tag, sig.peer)]
        /\ mailbox' = [mailbox EXCEPT ![p] = IF late THEN Append(Tail(@), died) ELSE Tail(@)]
        /\ enq' = [enq EXCEPT ![p] = IF late THEN Append(@, died) ELSE @]
        /\ hist' = [hist EXCEPT ![p] = Append(@, sig)]
        /\ UNCHANGED <<mem, st, reason, die, msgs, procTab, cont, ops, parent,
                       proto, buffered>>

HandleUnLink(p) ==
    LET sig == Head(mailbox[p])
    IN  /\ Selecting(p)
        /\ sig.type = "UnLink"
        /\ links' = [links EXCEPT ![p] = Remove(@, sig.peer)]
        /\ mailbox' = [mailbox EXCEPT ![p] = Tail(@)]
        /\ hist' = [hist EXCEPT ![p] = Append(@, sig)]
        /\ UNCHANGED <<mem, st, reason, die, msgs, procTab, cont, ops, parent,
                       enq, proto, buffered>>

HandleDieWhenLinkDies(p) ==
    LET sig == Head(mailbox[p])
    IN  /\ Selecting(p)
        /\ sig.type = "DieWhenLinkDies"
        /\ die' = [die EXCEPT ![p] = sig.flag]
        /\ mailbox' = [mailbox EXCEPT ![p] = Tail(@)]
        /\ hist' = [hist EXCEPT ![p] = Append(@, sig)]
        /\ UNCHANGED <<mem, st, reason, links, msgs, procTab, cont, ops, parent,
                       enq, proto, buffered>>

HandleKill(p) ==
    LET sig == Head(mailbox[p])
    IN  /\ Selecting(p)
        /\ sig.type = "Kill"
        /\ Exit(p, "killed")
        /\ UNCHANGED <<die, ops, parent, proto>>

\* A LinkDied handler that always turns the notification into a message.
HandleLinkDied_Message(p) ==
    LET sig == Head(mailbox[p])
    IN  /\ Selecting(p)
        /\ sig.type = "LinkDied"
        /\ msgs' = [msgs EXCEPT ![p] = Append(@, sig)]
        /\ hist' = [hist EXCEPT ![p] = Append(@, sig)]
        /\ mailbox' = [mailbox EXCEPT ![p] = Tail(@)]
        /\ UNCHANGED <<mem, st, reason, links, die, procTab, cont, ops,
                       parent, enq, proto, buffered>>

\* LinkDied: with die_when_link_dies the process terminates, killed by the
\* link; without it the notification becomes a message.
HandleLinkDied(p) ==
    LET sig == Head(mailbox[p])
    IN  /\ Selecting(p)
        /\ sig.type = "LinkDied"
        /\ IF die[p]
           THEN /\ Exit(p, "killed-by-link")
                /\ UNCHANGED <<die, ops, parent, proto>>
           ELSE /\ msgs' = [msgs EXCEPT ![p] = Append(@, sig)]
                /\ hist' = [hist EXCEPT ![p] = Append(@, sig)]
                /\ mailbox' = [mailbox EXCEPT ![p] = Tail(@)]
                /\ UNCHANGED <<mem, st, reason, links, die, procTab, cont, ops, 
                    parent, enq, proto, buffered>>

\* No signal is waiting: the Wasm future is polled.
PollWasm(p) ==
    /\ st[p] = "select"
    /\ mailbox[p] = <<>>
    /\ st' = [st EXCEPT ![p] = "wasm"]
    /\ proto' = IF cont[p].phase = 1
                THEN [proto EXCEPT ![cont[p].child] = Append(@, "Yield")]
                ELSE proto
    /\ cont' = IF cont[p].phase = 4 THEN [cont EXCEPT ![p] = NoCont] ELSE cont
    /\ UNCHANGED <<mem, reason, mailbox, links, die, msgs, procTab, ops,
                   parent, hist, enq, buffered>>

\* A guest that runs on without ever yielding to the scheduler.
Yield_Never(p) ==
    /\ st[p] = "wasm"
    /\ cont[p].phase = 0
    /\ UNCHANGED vars

\* The guest reaches the end of a unit of compute and yields to the scheduler.
Yield(p) ==
    /\ st[p] = "wasm"
    /\ cont[p].phase = 0
    /\ st' = [st EXCEPT ![p] = "select"]
    /\ UNCHANGED <<mem, reason, mailbox, links, die, msgs, procTab, cont, ops, 
                    parent, hist, enq, proto, buffered>>

\* The Wasm future completes: the entry returned, trapped or ran out of fuel.
WasmExits == {"normal", "trapped", "fuel-exhausted"}

Finish(p, why) ==
    /\ st[p] = "wasm"
    /\ cont[p].phase = 0
    /\ why \in WasmExits
    /\ Exit(p, why)
    /\ UNCHANGED <<die, ops, parent, proto>>

\* A Kill sent from outside of the guests to a running process.
SendKill(q) ==
    /\ ops < MaxOps
    /\ st[q] \in {"select", "wasm"}
    /\ ops' = ops + 1
    /\ mailbox' = WasmProcess_send(mailbox, q, Kill)
    /\ enq' = Logged(enq, q, Kill)
    /\ UNCHANGED <<mem, st, reason, links, die, msgs, procTab, cont, parent,
                   hist, proto, buffered>>


\* ------------------------------------------------------------ host calls
\* The guest is running and may make a host call.
HostCall(p) == st[p] = "wasm" /\ cont[p].phase = 0 /\ ops < MaxOps

\* A resource id that may or may not resolve in the caller's table.
ProcessIds(p) == 1..(Len(procTab[p]) + 1)

\* A host call traps: the Wasm future ends with an error.
Trap(p) ==
    /\ Exit(p, "trapped")
    /\ UNCHANGED <<die, ops, parent, proto>>

\* die_when_link_dies with the flag inverted.
DieSignal_Inverted(trap) == DieWhenLinkDies(trap = 0)

\* die_when_link_dies(trap): Signal::DieWhenLinkDies(trap != 0) to itself.
DieSignal(trap) == DieWhenLinkDies(trap # 0)

\* die_when_link_dies that sets the flag at the call.
die_when_link_dies_Now(p, trap) ==
    /\ HostCall(p)
    /\ die' = [die EXCEPT ![p] = trap # 0]
    /\ ops' = ops + 1
    /\ UNCHANGED <<mem, st, reason, mailbox, links, msgs, procTab, cont, parent,
                   hist, enq, proto, buffered>>

die_when_link_dies(p, trap) ==
    /\ HostCall(p)
    /\ mailbox' = try_send(mailbox, p, DieSignal(trap))
    /\ enq' = Logged(enq, p, DieSignal(trap))
    /\ ops' = ops + 1
    /\ buffered' = [buffered EXCEPT ![p] =
                      IF trap = 0
                      THEN \A i \in 1..Len(mailbox[p]) : mailbox[p][i].type # "LinkDied"
                      ELSE FALSE]
    /\ UNCHANGED <<mem, st, reason, links, die, msgs, procTab, cont, parent,
                   hist, proto>>

\* this(): a handle to the caller itself is added to its table.
this(p) ==
    /\ HostCall(p)
    /\ procTab' = [procTab EXCEPT ![p] = Append(@, p)]
    /\ ops' = ops + 1
    /\ UNCHANGED <<mem, st, reason, mailbox, links, die, msgs, cont, parent,
                   hist, enq, proto, buffered>>

\* sleep_ms(millis): the Wasm future waits for the timer; the task of the
\* process goes on taking its signals, and the future is polled again when
\* the timer has fired.
sleep_ms(p) ==
    /\ HostCall(p)
    /\ st' = [st EXCEPT ![p] = "select"]
    /\ cont' = [cont EXCEPT ![p] = [phase |-> 4, child |-> 0, tag |-> None]]
    /\ ops' = ops + 1
    /\ UNCHANGED <<mem, reason, mailbox, links, die, msgs, procTab, parent,
                   hist, enq, proto, buffered>>

\* WasmProcess::id: the UUID the handle was made with.
Uuid(q) == q

\* id(process_id, u128_ptr): the UUID of the handle's process is written to
\* the guest memory; an unknown id or a pointer outside the memory traps.
id(p, process_id, ptr_ok) ==
    /\ HostCall(p)
    /\ IF Resolves(p, process_id) /\ ptr_ok
       THEN /\ mem' = [mem EXCEPT ![p] = Uuid(procTab[p][process_id])]
            /\ ops' = ops + 1
            /\ UNCHANGED <<st, reason, mailbox, links, die, msgs, procTab, cont,
                           parent, hist, enq, proto, buffered>>
       ELSE Trap(p)

\* The tag of link(tag, process_id): 0 is None.
LinkTag(tag) == IF tag = 0 THEN None ELSE Some(tag)

\* link that sends the handle of the other process to the other process.
LinkSends_OtherHandle(p, tag, target) ==
    <<[to |-> target, sig |-> Link(LinkTag(tag), target)],
      [to |-> p, sig |-> Link(LinkTag(tag), target)]>>

\* link(tag, process_id): Link(tag, this) to the other process, then
\* Link(tag, other) to itself.
LinkSends(p, tag, target) ==
    <<[to |-> target, sig |-> Link(LinkTag(tag), p)],
      [to |-> p, sig |-> Link(LinkTag(tag), target)]>>

link(p, tag, process_id) ==
    /\ HostCall(p)
    /\ IF Resolves(p, process_id)
       THEN LET target == procTab[p][process_id]
                sends == LinkSends(p, tag, target)
            IN  /\ mailbox' = try_send(WasmProcess_send(mailbox, sends[1].to, sends[1].sig),
                                       sends[2].to, sends[2].sig)
                /\ enq' = Logged(Logged(enq, sends[1].to, sends[1].sig),
                                 sends[2].to, sends[2].sig)
                /\ ops' = ops + 1
                /\ UNCHANGED <<mem, st, reason, links, die, msgs, procTab, cont, 
                    parent, hist, proto, buffered>>
       ELSE Trap(p)

\* unlink(process_id): UnLink(this) to the other process, then UnLink(other)
\* to itself.
UnlinkSends(p, target) ==
    <<[to |-> target, sig |-> UnLink(p)], [to |-> p, sig |-> UnLink(target)]>>

unlink(p, process_id) ==
    /\ HostCall(p)
    /\ IF Resolves(p, process_id)
       THEN LET target == procTab[p][process_id]
                sends == UnlinkSends(p, target)
            IN  /\ mailbox' = try_send(WasmProcess_send(mailbox, sends[1].to, sends[1].sig),
                                       sends[2].to, sends[2].sig)
                /\ enq' = Logged(Logged(enq, sends[1].to, sends[1].sig),
                                 sends[2].to, sends[2].sig)
                /\ ops' = ops + 1
                /\ UNCHANGED <<mem, st, reason, links, die, msgs, procTab, cont, 
                    parent, hist, proto, buffered>>
       ELSE Trap(p)


\* ------------------------------------------------------------------ spawn
\* Uuid::new_v4(): an id no process has had.
FreshIds == {q \in Procs : st[q] = "none"}

\* spawn_from_module that links for every value of link.
SpawnLinked_Always(link_arg) == TRUE

\* spawn_from_module: link = 0 asks for no link, any other value is the tag.
SpawnLinked(link_arg) == link_arg # 0

\* Module::spawn that links the child only.
SpawnLinkParent_NoSend(p, c, link_arg) ==
    /\ st' = [st EXCEPT ![c] = "created", ![p] = "select"]
    /\ cont' = [cont EXCEPT ![p] = [phase |-> 1, child |-> c, tag |-> LinkTag(link_arg)]]
    /\ proto' = [proto EXCEPT ![c] = <<"LinkParent">>]
    /\ UNCHANGED <<mailbox, enq>>

\* Module::spawn without the yield between the two sends.
SpawnLinkParent_NoYield(p, c, link_arg) ==
    /\ mailbox' = WasmProcess_send(mailbox, p, Link(None, c))
    /\ enq' = Logged(enq, p, Link(None, c))
    /\ st' = [st EXCEPT ![c] = "created"]
    /\ cont' = [cont EXCEPT ![p] = [phase |-> 1, child |-> c, tag |-> LinkTag(link_arg)]]
    /\ proto' = [proto EXCEPT ![c] = <<"LinkParent">>]

\* Module::spawn that gives the tag to the parent's Link as well.
SpawnLinkParent_Tagged(p, c, link_arg) ==
    /\ mailbox' = WasmProcess_send(mailbox, p, Link(LinkTag(link_arg), c))
    /\ enq' = Logged(enq, p, Link(LinkTag(link_arg), c))
    /\ st' = [st EXCEPT ![c] = "created", ![p] = "select"]
    /\ cont' = [cont EXCEPT ![p] = [phase |-> 1, child |-> c, tag |-> LinkTag(link_arg)]]
    /\ proto' = [proto EXCEPT ![c] = <<"LinkParent">>]

\* Module::spawn with link = Some((tag, process)), up to the yield: the child
\* process exists, Link(None, child) is sent to the caller, the caller yields.
SpawnLinkParent(p, c, link_arg) ==
    /\ mailbox' = WasmProcess_send(mailbox, p, Link(None, c))
    /\ enq' = Logged(enq, p, Link(None, c))
    /\ st' = [st EXCEPT ![c] = "created", ![p] = "select"]
    /\ cont' = [cont EXCEPT ![p] = [phase |-> 1, child |-> c, tag |-> LinkTag(link_arg)]]
    /\ proto' = [proto EXCEPT ![c] = <<"LinkParent">>]

\* Module::spawn with link = None: the child is handed to the scheduler.
SpawnUnlinked(p, c, link_arg) ==
    /\ st' = [st EXCEPT ![c] = "select"]
    /\ cont' = [cont EXCEPT ![p] = [phase |-> 3, child |-> c, tag |-> None]]
    /\ proto' = [proto EXCEPT ![c] = <<"Task">>]
    /\ UNCHANGED <<mem, mailbox, enq>>

\* spawn that sends the Link to the caller before the module is instantiated
\* and the entry function looked up.
spawn_LinkFirst(p, link_arg, ok) ==
    /\ HostCall(p)
    /\ FreshIds # {}
    /\ ops' = ops + 1
    /\ LET c == MinOf(FreshIds)
       IN  IF ok
           THEN /\ parent' = [parent EXCEPT ![c] =
                                [id |-> p,
                                 link |-> IF SpawnLinked(link_arg) THEN Some(link_arg) ELSE None]]
                /\ IF SpawnLinked(link_arg)
                   THEN SpawnLinkParent(p, c, link_arg)
                   ELSE SpawnUnlinked(p, c, link_arg)
           ELSE /\ mailbox' = IF SpawnLinked(link_arg)
                              THEN WasmProcess_send(mailbox, p, Link(None, c))
                              ELSE mailbox
                /\ enq' = IF SpawnLinked(link_arg) THEN Logged(enq, p, Link(None, c)) ELSE enq
                /\ UNCHANGED <<mem, st, cont, proto, parent>>
    /\ UNCHANGED <<mem, reason, links, die, msgs, procTab, hist, buffered>>

\* spawn and inherit_spawn.  ok: the module instantiates and exports the
\* entry function; otherwise Module::spawn returns the error before anything
\* is sent and the call returns 1.
spawn(p, link_arg, ok) ==
    /\ HostCall(p)
    /\ FreshIds # {}
    /\ ops' = ops + 1
    /\ IF ok
       THEN LET c == MinOf(FreshIds)
            IN  /\ parent' = [parent EXCEPT ![c] =
                                [id |-> p,
                                 link |-> IF SpawnLinked(link_arg) THEN Some(link_arg) ELSE None]]
                /\ IF SpawnLinked(link_arg)
                   THEN SpawnLinkParent(p, c, link_arg)
                   ELSE SpawnUnlinked(p, c, link_arg)
       ELSE UNCHANGED <<mem, st, mailbox, enq, cont, proto, parent>>
    /\ UNCHANGED <<mem, reason, links, die, msgs, procTab, hist, buffered>>

\* Module::spawn after the yield, the Link to the child left out.
SpawnLinkChild_NoLink(p) ==
    LET c == cont[p].child
    IN  /\ st[p] = "wasm"
        /\ cont[p].phase = 1
        /\ cont' = [cont EXCEPT ![p].phase = 2]
        /\ proto' = [proto EXCEPT ![c] = Append(@, "LinkChild")]
        /\ UNCHANGED <<mem, st, reason, mailbox, links, die, msgs, procTab, ops,
                       parent, hist, enq, buffered>>

\* Module::spawn after the yield, the tag left out of the Link to the child.
SpawnLinkChild_NoTag(p) ==
    LET c == cont[p].child
        sig == Link(None, p)
    IN  /\ st[p] = "wasm"
        /\ cont[p].phase = 1
        /\ mailbox' = try_send(mailbox, c, sig)
        /\ enq' = Logged(enq, c, sig)
        /\ cont' = [cont EXCEPT ![p].phase = 2]
        /\ proto' = [proto EXCEPT ![c] = Append(@, "LinkChild")]
        /\ UNCHANGED <<mem, st, reason, links, die, msgs, procTab, ops, parent,
                       hist, buffered>>

\* Module::spawn after the yield: Link(tag, parent) is sent to the child.
SpawnLinkChild(p) ==
    LET c == cont[p].child
        sig == Link(cont[p].tag, p)
    IN  /\ st[p] = "wasm"
        /\ cont[p].phase = 1
        /\ mailbox' = try_send(mailbox, c, sig)
        /\ enq' = Logged(enq, c, sig)
        /\ cont' = [cont EXCEPT ![p].phase = 2]
        /\ proto' = [proto EXCEPT ![c] = Append(@, "LinkChild")]
        /\ UNCHANGED <<mem, st, reason, links, die, msgs, procTab, ops, parent,
                       hist, buffered>>

\* Module::spawn: the child process is handed to the scheduler.
SpawnTask(p) ==
    LET c == cont[p].child
    IN  /\ st[p] = "wasm"
        /\ cont[p].phase = 2
        /\ st' = [st EXCEPT ![c] = "select"]
        /\ cont' = [cont EXCEPT ![p].phase = 3]
        /\ proto' = [proto EXCEPT ![c] = Append(@, "Task")]
        /\ UNCHANGED <<mem, reason, mailbox, links, die, msgs, procTab, ops, 
                    parent, hist, enq, buffered>>

\* spawn_from_module after Module::spawn returned Ok: the handle is added to
\* the caller's table and its id written to id_ptr; a pointer outside the
\* memory traps.
SpawnReturn(p, ptr_ok) ==
    /\ st[p] = "wasm"
    /\ cont[p].phase = 3
    /\ IF ptr_ok
       THEN /\ procTab' = [procTab EXCEPT ![p] = Append(@, cont[p].child)]
            /\ cont' = [cont EXCEPT ![p] = NoCont]
            /\ UNCHANGED <<mem, st, reason, mailbox, links, die, msgs, ops, 
                    parent, hist, enq, proto, buffered>>
       ELSE Trap(p)

\* ------------------------------------------- resources and environments
MaxCalls == 3

\* The guests that make the host calls of this part.
Callers == {1, 2}

\* How a host call ended: a trap, or the value returned and the value
\* written to the id pointer (both None when the call has none).
Out(ret, written) == [trap |-> FALSE, ret |-> ret, written |-> written]
Trapped == [trap |-> TRUE, ret |-> None, written |-> None]

\* ResourceTable: add gives the value the smallest id not in use.
ResourceId(t) == MinOf((1..(Cardinality(DOMAIN t) + 1)) \ DOMAIN t)
ResourceAdd(t, v) == Insert(t, ResourceId(t), v)

\* A resource id that resolves, and the first one that does not.
IdArgs(t) == DOMAIN t \cup {ResourceId(t)}

\* EnvConfig::new, allow_namespace, add_plugin.
EnvConfig_new(max_memory, max_fuel) ==
    [max_memory |-> max_memory, max_fuel |-> max_fuel,
     namespaces |-> <<>>, plugins |-> <<>>]

EnvConfig_allow_namespace(config, namespace) ==
    [config EXCEPT !.namespaces = Append(@, namespace)]

EnvConfig_add_plugin(config, plugin) ==
    [config EXCEPT !.plugins = Append(@, plugin)]

\* Environment::new: the environment holds the config it is given and an
\* empty registry.
Environment_new(config) == [config |-> config, registry |-> <<>>]

\* The environment of the first guest.
RootConfig == EnvConfig_new(0, None)

InitHost ==
    /\ configs = [c \in Callers |-> <<>>]
    /\ environments = [c \in Callers |-> <<>>]
    /\ modules = [c \in Callers |-> <<>>]
    /\ processes = [c \in Callers |-> <<>>]
    /\ errors = [c \in Callers |-> <<>>]
    /\ envs = <<Environment_new(RootConfig)>>
    /\ envOf = [c \in Callers |-> IF c = 1 THEN 1 ELSE 0]
    /\ out = [c \in Callers |-> Out(None, None)]
    /\ calls = 0
    /\ spawned = 0

\* The guest c runs and may make a host call.
Calling(c) == envOf[c] # 0 /\ ~out[c].trap /\ calls < MaxCalls

\* The call ends: out is set and the call counted.
Ends(c, o) ==
    /\ out' = [out EXCEPT ![c] = o]
    /\ calls' = calls + 1

\* or_trap on a resource id that does not resolve: nothing else changes.
IdTrap(c) ==
    /\ Ends(c, Trapped)
    /\ UNCHANGED <<configs, environments, modules, processes, errors, envs,
                   envOf, spawned>>

\* memory.write of an id to the id pointer: a trap when it is outside the
\* memory.
Written(ret, rid, ptr_ok) == IF ptr_ok THEN Out(ret, Some(rid)) ELSE Trapped

\* create_config(max_memory, max_fuel): max_fuel = 0 is no limit.
create_config(c, max_memory, max_fuel) ==
    /\ Calling(c)
    /\ configs' = [configs EXCEPT ![c] =
                     ResourceAdd(@, EnvConfig_new(max_memory,
                                     IF max_fuel # 0 THEN Some(max_fuel) ELSE None))]
    /\ Ends(c, Out(Some(ResourceId(configs[c])), None))
    /\ UNCHANGED <<environments, modules, processes, errors, envs, envOf, spawned>>

\* drop_config that lets an id that does not resolve pass.
drop_config_Ignore(c, config_id) ==
    /\ Calling(c)
    /\ configs' = [configs EXCEPT ![c] = Remove(@, config_id)]
    /\ Ends(c, Out(None, None))
    /\ UNCHANGED <<environments, modules, processes, errors, envs, envOf, spawned>>

drop_config(c, config_id) ==
    /\ Calling(c)
    /\ IF config_id \in DOMAIN configs[c]
       THEN /\ configs' = [configs EXCEPT ![c] = Remove(@, config_id)]
            /\ Ends(c, Out(None, None))
            /\ UNCHANGED <<environments, modules, processes, errors, envs,
                           envOf, spawned>>
       ELSE IdTrap(c)

\* allow_namespace on a config that the environments made from it share.
allow_namespace_Shared(c, config_id, namespace) ==
    /\ Calling(c)
    /\ IF config_id \in DOMAIN configs[c]
       THEN /\ configs' = [configs EXCEPT ![c][config_id] =
                             EnvConfig_allow_namespace(@, namespace)]
            /\ envs' = [e \in 1..Len(envs) |->
                          IF envs[e].config = configs[c][config_id]
                          THEN [envs[e] EXCEPT !.config =
                                  EnvConfig_allow_namespace(@, namespace)]
                          ELSE envs[e]]
            /\ Ends(c, Out(None, None))
            /\ UNCHANGED <<environments, modules, processes, errors, envOf, spawned>>
       ELSE IdTrap(c)

allow_namespace(c, config_id, namespace) ==
    /\ Calling(c)
    /\ IF config_id \in DOMAIN configs[c]
       THEN /\ configs' = [configs EXCEPT ![c][config_id] =
                             EnvConfig_allow_namespace(@, namespace)]
            /\ Ends(c, Out(None, None))
            /\ UNCHANGED <<environments, modules, processes, errors, envs,
                           envOf, spawned>>
       ELSE IdTrap(c)

\* add_plugin: a plugin the config refuses gives an error resource and
\* status 1; 0 is written to id_ptr on success.
add_plugin(c, config_id, plugin, valid, ptr_ok) ==
    /\ Calling(c)
    /\ IF config_id \in DOMAIN configs[c]
       THEN /\ configs' = IF valid
                          THEN [configs EXCEPT ![c][config_id] =
                                  EnvConfig_add_plugin(@, plugin)]
                          ELSE configs
            /\ errors' = IF valid THEN errors
                         ELSE [errors EXCEPT ![c] = ResourceAdd(@, "add_plugin")]
            /\ Ends(c, IF valid THEN Written(Some(0), 0, ptr_ok)
                       ELSE Written(Some(1), ResourceId(errors[c]), ptr_ok))
            /\ UNCHANGED <<environments, modules, processes, envs, envOf, spawned>>
       ELSE IdTrap(c)

\* create_environment: the environment is made from a clone of the config,
\* which stays in the table.
create_environment(c, config_id, ok, ptr_ok) ==
    /\ Calling(c)
    /\ IF config_id \in DOMAIN configs[c]
       THEN LET config == configs[c][config_id]
            IN  /\ envs' = IF ok THEN Append(envs, Environment_new(config)) ELSE envs
                /\ environments' =
                      IF ok THEN [environments EXCEPT ![c] = ResourceAdd(@, Len(envs) + 1)]
                      ELSE environments
                /\ errors' = IF ok THEN errors
                             ELSE [errors EXCEPT ![c] = ResourceAdd(@, "create_environment")]
                /\ Ends(c, IF ok
                           THEN Written(Some(0), ResourceId(environments[c]), ptr_ok)
                           ELSE Written(Some(1), ResourceId(errors[c]), ptr_ok))
                /\ UNCHANGED <<configs, modules, processes, envOf, spawned>>
       ELSE IdTrap(c)

drop_environment(c, env_id) ==
    /\ Calling(c)
    /\ IF env_id \in DOMAIN environments[c]
       THEN /\ environments' = [environments EXCEPT ![c] = Remove(@, env_id)]
            /\ Ends(c, Out(None, None))
            /\ UNCHANGED <<configs, modules, processes, errors, envs, envOf, spawned>>
       ELSE IdTrap(c)

\* this_env(): a handle to the environment of the caller's module.
this_env(c) ==
    /\ Calling(c)
    /\ environments' = [environments EXCEPT ![c] = ResourceAdd(@, envOf[c])]
    /\ Ends(c, Out(Some(ResourceId(environments[c])), None))
    /\ UNCHANGED <<configs, modules, processes, errors, envs, envOf, spawned>>

\* add_module and add_this_module: the module is compiled in the
\* environment; a failure gives an error resource and status 1.
AddModule(c, env_id, ok, ptr_ok, what) ==
    /\ Calling(c)
    /\ IF env_id \in DOMAIN environments[c]
       THEN /\ modules' = IF ok
                          THEN [modules EXCEPT ![c] = ResourceAdd(@, environments[c][env_id])]
                          ELSE modules
            /\ errors' = IF ok THEN errors
                         ELSE [errors EXCEPT ![c] = ResourceAdd(@, what)]
            /\ Ends(c, IF ok THEN Written(Some(0), ResourceId(modules[c]), ptr_ok)
                       ELSE Written(Some(1), ResourceId(errors[c]), ptr_ok))
            /\ UNCHANGED <<configs, environments, processes, envs, envOf, spawned>>
       ELSE IdTrap(c)

add_module(c, env_id, ok, ptr_ok) == AddModule(c, env_id, ok, ptr_ok, "add_module")

add_this_module(c, env_id, ok, ptr_ok) ==
    AddModule(c, env_id, ok, ptr_ok, "add_this_module")

drop_module(c, mod_id) ==
    /\ Calling(c)
    /\ IF mod_id \in DOMAIN modules[c]
       THEN /\ modules' = [modules EXCEPT ![c] = Remove(@, mod_id)]
            /\ Ends(c, Out(None, None))
            /\ UNCHANGED <<configs, environments, processes, errors, envs, envOf, spawned>>
       ELSE IdTrap(c)

\* The id of the next process spawned: the guests come first.
NewProcess == Cardinality(Callers) + spawned + 1

\* spawn_from_module that returns 1 for an error of Module::spawn without
\* keeping the error.
SpawnFromModule_NoError(c, ok, ptr_ok) ==
    /\ processes' = IF ok THEN [processes EXCEPT ![c] = ResourceAdd(@, NewProcess)]
                    ELSE processes
    /\ spawned' = IF ok THEN spawned + 1 ELSE spawned
    /\ errors' = errors
    /\ Ends(c, IF ok THEN Written(Some(0), ResourceId(processes[c]), ptr_ok)
               ELSE Out(Some(1), None))
    /\ UNCHANGED <<configs, environments, modules, envs, envOf>>

\* spawn_from_module seen from the resources: Module::spawn gives a process,
\* whose handle is added, or an error, which is added to the errors.
SpawnFromModule(c, ok, ptr_ok) ==
    /\ processes' = IF ok THEN [processes EXCEPT ![c] = ResourceAdd(@, NewProcess)]
                    ELSE processes
    /\ spawned' = IF ok THEN spawned + 1 ELSE spawned
    /\ errors' = IF ok THEN errors ELSE [errors EXCEPT ![c] = ResourceAdd(@, "spawn")]
    /\ Ends(c, IF ok THEN Written(Some(0), ResourceId(processes[c]), ptr_ok)
               ELSE Written(Some(1), ResourceId(errors[c]), ptr_ok))
    /\ UNCHANGED <<configs, environments, modules, envs, envOf>>

\* spawn(link, module_id, ..): the module is looked up first.
spawn_module(c, module_id, ok, ptr_ok) ==
    /\ Calling(c)
    /\ IF module_id \in DOMAIN modules[c]
       THEN SpawnFromModule(c, ok, ptr_ok)
       ELSE IdTrap(c)

\* inherit_spawn(link, ..): the module of the caller.
inherit_spawn(c, ok, ptr_ok) ==
    /\ Calling(c)
    /\ SpawnFromModule(c, ok, ptr_ok)

clone_process(c, process_id) ==
    /\ Calling(c)
    /\ IF process_id \in DOMAIN processes[c]
       THEN /\ processes' = [processes EXCEPT ![c] = ResourceAdd(@, @[process_id])]
            /\ Ends(c, Out(Some(ResourceId(processes[c])), None))
            /\ UNCHANGED <<configs, environments, modules, errors, envs, envOf, spawned>>
       ELSE IdTrap(c)

drop_process(c, process_id) ==
    /\ Calling(c)
    /\ IF process_id \in DOMAIN processes[c]
       THEN /\ processes' = [processes EXCEPT ![c] = Remove(@, process_id)]
            /\ Ends(c, Out(None, None))
            /\ UNCHANGED <<configs, environments, modules, errors, envs, envOf, spawned>>
       ELSE IdTrap(c)

\* ------------------------------------------------- decoding of arguments
MaxRecords == 2

\* The pointers and lengths of the host calls are u32 and the size of a
\* memory is a usize.  A number is kept as two limbs, hi * 2^16 + lo with
\* lo < 2^16, and a u32 has hi < 2^16.
W16 == 65536

U(hi, lo) == [hi |-> hi, lo |-> lo]

\* The sum of two numbers, as wide as it needs to be.
Plus(a, b) ==
    LET lo == a.lo + b.lo
    IN  U(a.hi + b.hi + (lo \div W16), lo % W16)

\* as u32 of a sum: what is left of it modulo 2^32.
WrapU32(x) == U(x.hi % W16, x.lo)

FitsU32(x) == x.hi < W16

AtMost(a, b) == a.hi < b.hi \/ (a.hi = b.hi /\ a.lo <= b.lo)

\* memory.data(..).get(ptr as usize..(ptr + len) as usize): the sum is made
\* in u32.  A sum that does not fit panics in a build with overflow checks
\* and wraps in a build without; get gives nothing for a range that ends
\* before it starts or after the memory.
Region(ptr, len, size, checks) ==
    IF ~FitsU32(Plus(ptr, len)) /\ checks
    THEN [outcome |-> "panic", from |-> U(0, 0), to |-> U(0, 0)]
    ELSE LET end == WrapU32(Plus(ptr, len))
         IN  IF AtMost(ptr, end) /\ AtMost(end, size)
             THEN [outcome |-> "ok", from |-> ptr, to |-> end]
             ELSE [outcome |-> "trap", from |-> U(0, 0), to |-> U(0, 0)]

\* The type ids of the params: 0x7F i32, 0x7E i64, 0x7B v128.
ValType(tag) ==
    IF tag = 127 THEN "I32"
    ELSE IF tag = 126 THEN "I64"
    ELSE IF tag = 123 THEN "V128"
    ELSE "Unsupported"

\* chunks_exact(17): the whole records of the region; what is left over is
\* not looked at.
ChunksExact(len) == (len.hi * W16 + len.lo) \div 17

\* The first byte of the k-th record of the params region: the memory holds
\* req.tags at these places and 0 elsewhere.
TagAt(tags, k) == IF k <= Len(tags) THEN tags[k] ELSE 0

\* The outcome of a decoding: how it ended, the ranges of the memory read,
\* the params decoded.
Resp(outcome, read, params) == [outcome |-> outcome, read |-> read, params |-> params]
NoResp == Resp("none", {}, <<>>)

\* params.chunks_exact(17).map(..).collect(): an unsupported type id is an
\* error, which traps.
DecodeParams(r, read) ==
    LET n == ChunksExact(r.params_len)
        bad == {k \in 1..(Len(r.tags) + 1) : k <= n /\ ValType(TagAt(r.tags, k)) = "Unsupported"}
    IN  IF bad # {} THEN Resp("trap", read, <<>>)
        ELSE Resp("ok", read, [k \in 1..n |-> ValType(r.tags[k])])

\* Two regions are taken from the memory one after the other, each followed
\* by from_utf8 for the regions that hold a string.
TwoRegions(r, second_is_string) ==
    LET a == Region(r.func_ptr, r.func_len, r.size, r.checks)
        b == Region(r.params_ptr, r.params_len, r.size, r.checks)
        ra == {<<a.from, a.to>>}
        rb == ra \cup {<<b.from, b.to>>}
    IN  IF a.outcome # "ok" THEN Resp(a.outcome, {}, <<>>)
        ELSE IF ~r.utf8 THEN Resp("trap", ra, <<>>)
        ELSE IF b.outcome # "ok" THEN Resp(b.outcome, ra, <<>>)
        ELSE IF second_is_string THEN Resp("ok", rb, <<>>)
        ELSE DecodeParams(r, rb)

\* spawn_from_module up to the decoded params: the function name, then the
\* params.
spawn_args ==
    /\ resp = NoResp
    /\ resp' = TwoRegions(req, FALSE)
    /\ UNCHANGED req

\* register, unregister and lookup up to their two strings: the name, then
\* the version or the query.
name_args ==
    /\ resp = NoResp
    /\ resp' = TwoRegions(req, TRUE)
    /\ UNCHANGED req

NoReq ==
    [func_ptr |-> U(0, 0), func_len |-> U(0, 0), params_ptr |-> U(0, 0),
     params_len |-> U(0, 0), tags |-> <<>>, size |-> U(0, 0),
     checks |-> FALSE, utf8 |-> TRUE]

InitDecode == req = NoReq /\ resp = NoResp

TagSeqs == UNION {[1..n -> {127, 126, 123, 0}] : n \in 0..MaxRecords}

\* The arguments and memories tried: pointers and lengths at both ends of
\* u32, regions of no, one and two records with and without bytes left over,
\* memories of one and of two pages, builds with and without overflow
\* checks.
Requests ==
    [func_ptr : {U(0, 0), U(0, 16), U(W16 - 1, W16 - 1)},
     func_len : {U(0, 0), U(0, 4)},
     params_ptr : {U(0, 0), U(0, 16), U(W16 - 1, W16 - 1)},
     params_len : {U(0, 0), U(0, 17), U(0, 18), U(0, 34), U(W16 - 1, W16 - 16)},
     tags : TagSeqs, size : {U(1, 0), U(2, 0)}, checks : BOOLEAN,
     utf8 : BOOLEAN]

NextDecode ==
    \/ spawn_args /\ UNCHANGED <<procvars, hostvars, linkvars, fuelvars>>
    \/ name_args /\ UNCHANGED <<procvars, hostvars, linkvars, fuelvars>>

\* --------------------------------------------------------------- linker
MaxFilter == 2

\* The namespace and the names register passes to link_if_match.
ProcessNamespace == <<"l", "u", "n", "a", "t", "i", "c", ":", ":", "p", "r", "o", "c", "e", "s", "s">>

ProcessApi ==
    {<<"c", "r", "e", "a", "t", "e", "_", "c", "o", "n", "f", "i", "g">>,
     <<"d", "r", "o", "p", "_", "c", "o", "n", "f", "i", "g">>,
     <<"a", "l", "l", "o", "w", "_", "n", "a", "m", "e", "s", "p", "a", "c", "e">>,
     <<"c", "r", "e", "a", "t", "e", "_", "e", "n", "v", "i", "r", "o", "n", "m", "e", "n", "t">>,
     <<"d", "r", "o", "p", "_", "e", "n", "v", "i", "r", "o", "n", "m", "e", "n", "t">>,
     <<"a", "d", "d", "_", "p", "l", "u", "g", "i", "n">>,
     <<"a", "d", "d", "_", "m", "o", "d", "u", "l", "e">>,
     <<"a", "d", "d", "_", "t", "h", "i", "s", "_", "m", "o", "d", "u", "l", "e">>,
     <<"d", "r", "o", "p", "_", "m", "o", "d", "u", "l", "e">>,
     <<"s", "p", "a", "w", "n">>,
     <<"i", "n", "h", "e", "r", "i", "t", "_", "s", "p", "a", "w", "n">>,
     <<"d", "r", "o", "p", "_", "p", "r", "o", "c", "e", "s", "s">>,
     <<"c", "l", "o", "n", "e", "_", "p", "r", "o", "c", "e", "s", "s">>,
     <<"s", "l", "e", "e", "p", "_", "m", "s">>,
     <<"d", "i", "e", "_", "w", "h", "e", "n", "_", "l", "i", "n", "k", "_", "d", "i", "e", "s">>,
     <<"t", "h", "i", "s">>,
     <<"i", "d">>,
     <<"t", "h", "i", "s", "_", "e", "n", "v">>,
     <<"l", "i", "n", "k">>,
     <<"u", "n", "l", "i", "n", "k">>,
     <<"r", "e", "g", "i", "s", "t", "e", "r">>,
     <<"u", "n", "r", "e", "g", "i", "s", "t", "e", "r">>,
     <<"l", "o", "o", "k", "u", "p">>}

\* The fully-qualified name of a host call.
FullName(namespace, name) == namespace \o <<":", ":">> \o name

StartsWith(s, prefix) ==
    Len(prefix) <= Len(s) /\ \A i \in 1..Len(prefix) : s[i] = prefix[i]

\* link_if_match: the call is registered when the filter is empty or one of
\* its entries is a prefix of the fully-qualified name.
namespace_matches_filter(namespace, name, namespace_filter) ==
    \/ namespace_filter = <<>>
    \/ \E i \in 1..Len(namespace_filter) :
          StartsWith(FullName(namespace, name), namespace_filter[i])

\* register that hands every call to the linker.
register_NoFilter ==
    /\ linker = None
    /\ linker' = Some(ProcessApi)
    /\ UNCHANGED filter

\* register(linker, namespace_filter): link_if_match for every host call.
register ==
    /\ linker = None
    /\ linker' = Some({name \in ProcessApi :
                         namespace_matches_filter(ProcessNamespace, name, filter)})
    /\ UNCHANGED filter

InitLinker == filter = <<>> /\ linker = None

\* The entries allow_namespace is called with.
Prefixes ==
    {<<>>,
     <<"l", "u", "n", "a", "t", "i", "c", ":", ":">>,
     <<"l", "u", "n", "a", "t", "i", "c", ":", ":", "p", "r", "o", "c", "e", "s", "s", ":", ":">>,
     <<"l", "u", "n", "a", "t", "i", "c", ":", ":", "p", "r", "o", "c", "e", "s", "s", ":", ":", "s">>,
     <<"l", "u", "n", "a", "t", "i", "c", ":", ":", "p", "r", "o", "c", "e", "s", "s", ":", ":", "s", "p", "a", "w", "n">>,
     <<"l", "u", "n", "a", "t", "i", "c", ":", ":", "p", "r", "o", "c", "e", "s", "s", ":", ":", "t", "h", "i", "s">>,
     <<"l", "u", "n", "a", "t", "i", "c", ":", ":", "p", "r", "o", "c", "e", "s", "s", "e", "s">>,
     <<"w", "a", "s", "i", ":", ":">>}

Filters == UNION {[1..n -> Prefixes] : n \in 0..MaxFilter}

NextLinker ==
    \/ register /\ UNCHANGED <<procvars, hostvars, decvars, fuelvars>>

\* ------------------------------------------------------------------ fuel
MaxFuel == 5
MaxUnits == 6

\* environment::UNIT_OF_COMPUTE_IN_INSTRUCTIONS.
UNIT_OF_COMPUTE_IN_INSTRUCTIONS == 10000

\* u64::MAX as an injection count.  No run counts it down to 0, so it is kept
\* as a value of its own that stays what it is when one is taken from it.
U64_MAX == -1

\* create_config with max_fuel = 0 taken for a limit of no fuel.
MaxFuelOf_Raw(max_fuel) == Some(max_fuel)

\* create_config: max_fuel = 0 is no limit.
MaxFuelOf(max_fuel) == IF max_fuel # 0 THEN Some(max_fuel) ELSE None

\* Module::spawn: out_of_fuel_async_yield(max_fuel, UNIT) with a limit,
\* out_of_fuel_async_yield(u64::MAX, UNIT) without.
InjectionCount(max_fuel) == IF max_fuel # None THEN max_fuel[1] ELSE U64_MAX

TakeOne(count) == IF count = U64_MAX THEN U64_MAX ELSE count - 1

\* No process is being metered.
InitStore ==
    /\ max_fuel_arg = 0
    /\ injection_count = 0
    /\ fuel = 0
    /\ consumed = 0
    /\ yields = 0
    /\ run = "none"
    /\ exit_reason = "none"

\* A process spawned in an environment made from create_config(_, k): its
\* store starts without fuel.
InitMetered ==
    /\ max_fuel_arg \in 0..MaxFuel
    /\ injection_count = InjectionCount(EnvConfig_new(1, MaxFuelOf(max_fuel_arg)).max_fuel)
    /\ fuel = 0
    /\ consumed = 0
    /\ yields = 0
    /\ run = "running"
    /\ exit_reason = "none"

\* The guest, a loop that never ends, runs n instructions.
Execute(n) ==
    /\ run = "running"
    /\ 0 < n /\ n <= fuel
    /\ fuel' = fuel - n
    /\ consumed' = consumed + n
    /\ UNCHANGED <<max_fuel_arg, injection_count, yields, run, exit_reason>>

\* The store is out of fuel: with an injection left the guest yields to the
\* scheduler and gets one unit of compute; with none left the store traps
\* and the process ends, its fuel exhausted.
OutOfFuel ==
    /\ run = "running"
    /\ fuel = 0
    /\ IF injection_count # 0
       THEN /\ consumed < MaxUnits * UNIT_OF_COMPUTE_IN_INSTRUCTIONS
            /\ injection_count' = TakeOne(injection_count)
            /\ fuel' = UNIT_OF_COMPUTE_IN_INSTRUCTIONS
            /\ yields' = yields + 1
            /\ run' = "yielded"
            /\ UNCHANGED <<max_fuel_arg, consumed, exit_reason>>
       ELSE /\ run' = "ended"
            /\ exit_reason' = "fuel-exhausted"
            /\ UNCHANGED <<max_fuel_arg, injection_count, fuel, consumed, yields>>

\* The scheduler polls the guest again.
Resume ==
    /\ run = "yielded"
    /\ run' = "running"
    /\ UNCHANGED <<max_fuel_arg, injection_count, fuel, consumed, yields, exit_reason>>

\* The instructions the guest runs between two looks at it.
Strides ==
    {UNIT_OF_COMPUTE_IN_INSTRUCTIONS \div 4, UNIT_OF_COMPUTE_IN_INSTRUCTIONS \div 2,
     UNIT_OF_COMPUTE_IN_INSTRUCTIONS}

NextFuel ==
    \/ \E n \in Strides : Execute(n)
          /\ UNCHANGED <<procvars, hostvars, decvars, linkvars>>
    \/ OutOfFuel /\ UNCHANGED <<procvars, hostvars, decvars, linkvars>>
    \/ Resume /\ UNCHANGED <<procvars, hostvars, decvars, linkvars>>

InitFuel == InitProcs /\ InitHost /\ InitDecode /\ InitLinker /\ InitMetered

\* The loop goes on running, the store acts when it is out of fuel, and the
\* scheduler polls a guest that yielded.
FairFuel ==
    /\ WF_vars((\E n \in Strides : Execute(n))
                  /\ UNCHANGED <<procvars, hostvars, decvars, linkvars>>)
    /\ WF_vars(OutOfFuel /\ UNCHANGED <<procvars, hostvars, decvars, linkvars>>)
    /\ WF_vars(Resume /\ UNCHANGED <<procvars, hostvars, decvars, linkvars>>)

SpecFuel == InitFuel /\ [][NextFuel]_vars /\ FairFuel

\* The state after construction: the first process runs, it has no resources
\* yet, nothing is being decoded and no linker is built.
Init == InitProcs /\ InitHost /\ InitDecode /\ InitLinker /\ InitStore

\* ---------------------------------------------------------- name registry
\* A version string is the sequence of its numeric components; a strict
\* semver version has three.  A query is an operator and a version with one
\* to three components: "=1.2.3" is [op |-> "=", v |-> <<1, 2, 3>>], "^1.2"
\* is [op |-> "^", v |-> <<1, 2>>].
ValidVersion(version) == Len(version) = 3

ValidQuery(query) == query.op \in {"=", "^"} /\ Len(query.v) \in 1..3

Padded(v) == [i \in 1..3 |-> IF i <= Len(v) THEN v[i] ELSE 0]

Less(a, b) ==
    \/ a[1] < b[1]
    \/ a[1] = b[1] /\ a[2] < b[2]
    \/ a[1] = b[1] /\ a[2] = b[2] /\ a[3] < b[3]

\* The first version a caret query excludes: the leftmost component that is
\* not zero, or the last one given, goes up by one.
CaretUpper(v) ==
    LET p == Padded(v)
    IN  IF p[1] > 0 \/ Len(v) = 1 THEN <<p[1] + 1, 0, 0>>
        ELSE IF p[2] > 0 \/ Len(v) = 2 THEN <<0, p[2] + 1, 0>>
        ELSE <<0, 0, p[3] + 1>>

Satisfies(version, query) ==
    IF query.op = "="
    THEN \A i \in 1..Len(query.v) : version[i] = query.v[i]
    ELSE ~Less(version, Padded(query.v)) /\ Less(version, CaretUpper(query.v))

\* Registry::insert, remove and get on valid strings.
Registry_insert(registry, name, version, process) ==
    Insert(registry, <<name, version>>, process)

Registry_remove(registry, name, version) == Remove(registry, <<name, version>>)

Matching(registry, name, query) ==
    {k \in DOMAIN registry : k[1] = name /\ Satisfies(k[2], query)}

\* A registry that answers with the lowest matching version.
Registry_get_Lowest(registry, name, query) ==
    LET m == Matching(registry, name, query)
    IN  IF m = {} THEN None
        ELSE Some(registry[CHOOSE k \in m : \A j \in m : ~Less(j[2], k[2])])

Registry_get(registry, name, query) ==
    LET m == Matching(registry, name, query)
    IN  IF m = {} THEN None
        ELSE Some(registry[CHOOSE k \in m : \A j \in m : ~Less(k[2], j[2])])

\* lookup that asks the registry of the first environment.
LookupRegistry_Root(c) == envs[1].registry

\* The registry lookup asks: the one of the environment of the caller's
\* module.
LookupRegistry(c) == envs[envOf[c]].registry

\* register(name, version, env_id, process_id): the process is looked up,
\* then the environment, then the entry is inserted into its registry.
register_proc(c, name, version, env_id, process_id) ==
    /\ Calling(c)
    /\ IF process_id \in DOMAIN processes[c] /\ env_id \in DOMAIN environments[c]
       THEN LET e == environments[c][env_id]
            IN  /\ envs' = IF ValidVersion(version)
                           THEN [envs EXCEPT ![e].registry =
                                   Registry_insert(@, name, version, processes[c][process_id])]
                           ELSE envs
                /\ Ends(c, Out(Some(IF ValidVersion(version) THEN 0 ELSE 1), None))
                /\ UNCHANGED <<configs, environments, modules, processes, errors,
                               envOf, spawned>>
       ELSE IdTrap(c)

\* unregister(name, version, env_id): 0 removed, 1 bad version, 2 no entry.
unregister(c, name, version, env_id) ==
    /\ Calling(c)
    /\ IF env_id \in DOMAIN environments[c]
       THEN LET e == environments[c][env_id]
                found == <<name, version>> \in DOMAIN envs[e].registry
            IN  /\ envs' = IF ValidVersion(version)
                           THEN [envs EXCEPT ![e].registry =
                                   Registry_remove(@, name, version)]
                           ELSE envs
                /\ Ends(c, Out(Some(IF ~ValidVersion(version) THEN 1
                                    ELSE IF found THEN 0 ELSE 2), None))
                /\ UNCHANGED <<configs, environments, modules, processes, errors,
                               envOf, spawned>>
       ELSE IdTrap(c)

\* lookup(name, query, id_ptr): 1 for a bad query, with nothing added or
\* written; 2 for no match; else a handle is added and its id written.
lookup(c, name, query, ptr_ok) ==
    /\ Calling(c)
    /\ IF ~ValidQuery(query)
       THEN /\ Ends(c, Out(Some(1), None))
            /\ UNCHANGED processes
       ELSE LET process == Registry_get(LookupRegistry(c), name, query)
            IN  IF process = None
                THEN /\ Ends(c, Out(Some(2), None))
                     /\ UNCHANGED processes
                ELSE /\ processes' = [processes EXCEPT ![c] = ResourceAdd(@, process[1])]
                     /\ Ends(c, Written(Some(0), ResourceId(processes[c]), ptr_ok))
    /\ UNCHANGED <<configs, environments, modules, errors, envs, envOf, spawned>>

\* ----------------------------------------------- the host calls, together
Namespaces == {"lunatic::", "wasi::"}
Names == {"calc", "log"}
VersionStrings == {<<1, 2, 3>>, <<1, 3, 0>>, <<2, 0, 0>>, <<1, 2>>}
Queries ==
    {[op |-> "=", v |-> <<1, 2, 3>>], [op |-> "^", v |-> <<1, 2>>],
     [op |-> "^", v |-> <<2>>], [op |-> "^", v |-> <<3>>],
     [op |-> "?", v |-> <<>>]}

NextHost ==
    \/ \E c \in Callers, max_fuel \in {0, 7} : create_config(c, 1, max_fuel)
          /\ UNCHANGED <<procvars, decvars, linkvars, fuelvars>>
    \/ \E c \in Callers : \E config_id \in IdArgs(configs[c]) : drop_config(c, config_id)
          /\ UNCHANGED <<procvars, decvars, linkvars, fuelvars>>
    \/ \E c \in Callers, namespace \in Namespaces : \E config_id \in IdArgs(configs[c]) :
          allow_namespace(c, config_id, namespace)
          /\ UNCHANGED <<procvars, decvars, linkvars, fuelvars>>
    \/ \E c \in Callers, valid, ptr_ok \in BOOLEAN : \E config_id \in IdArgs(configs[c]) :
          add_plugin(c, config_id, "plugin", valid, ptr_ok)
          /\ UNCHANGED <<procvars, decvars, linkvars, fuelvars>>
    \/ \E c \in Callers, ok, ptr_ok \in BOOLEAN : \E config_id \in IdArgs(configs[c]) :
          create_environment(c, config_id, ok, ptr_ok)
          /\ UNCHANGED <<procvars, decvars, linkvars, fuelvars>>
    \/ \E c \in Callers : \E env_id \in IdArgs(environments[c]) : drop_environment(c, env_id)
          /\ UNCHANGED <<procvars, decvars, linkvars, fuelvars>>
    \/ \E c \in Callers : this_env(c)
          /\ UNCHANGED <<procvars, decvars, linkvars, fuelvars>>
    \/ \E c \in Callers, ok, ptr_ok \in BOOLEAN : \E env_id \in IdArgs(environments[c]) :
          add_module(c, env_id, ok, ptr_ok)
          /\ UNCHANGED <<procvars, decvars, linkvars, fuelvars>>
    \/ \E c \in Callers, ok, ptr_ok \in BOOLEAN : \E env_id \in IdArgs(environments[c]) :
          add_this_module(c, env_id, ok, ptr_ok)
          /\ UNCHANGED <<procvars, decvars, linkvars, fuelvars>>
    \/ \E c \in Callers : \E mod_id \in IdArgs(modules[c]) : drop_module(c, mod_id)
          /\ UNCHANGED <<procvars, decvars, linkvars, fuelvars>>
    \/ \E c \in Callers, ok, ptr_ok \in BOOLEAN : \E module_id \in IdArgs(modules[c]) :
          spawn_module(c, module_id, ok, ptr_ok)
          /\ UNCHANGED <<procvars, decvars, linkvars, fuelvars>>
    \/ \E c \in Callers, ok, ptr_ok \in BOOLEAN : inherit_spawn(c, ok, ptr_ok)
          /\ UNCHANGED <<procvars, decvars, linkvars, fuelvars>>
    \/ \E c \in Callers : \E process_id \in IdArgs(processes[c]) : clone_process(c, process_id)
          /\ UNCHANGED <<procvars, decvars, linkvars, fuelvars>>
    \/ \E c \in Callers : \E process_id \in IdArgs(processes[c]) : drop_process(c, process_id)
          /\ UNCHANGED <<procvars, decvars, linkvars, fuelvars>>
    \/ \E c \in Callers, version \in {<<1, 2, 3>>, <<1, 2>>} :
          \E env_id \in IdArgs(environments[c]), process_id \in IdArgs(processes[c]) :
             register_proc(c, "calc", version, env_id, process_id)
          /\ UNCHANGED <<procvars, decvars, linkvars, fuelvars>>
    \/ \E c \in Callers : \E env_id \in IdArgs(environments[c]) :
          unregister(c, "calc", <<1, 2, 3>>, env_id)
          /\ UNCHANGED <<procvars, decvars, linkvars, fuelvars>>
    \/ \E c \in Callers, query \in {[op |-> "=", v |-> <<1, 2, 3>>], [op |-> "?", v |-> <<>>]} :
          lookup(c, "calc", query, TRUE)
          /\ UNCHANGED <<procvars, decvars, linkvars, fuelvars>>

SpecHost == Init /\ [][NextHost]_vars

\* The registry calls of two guests of two environments.  The first guest
\* has made the second environment from a config, added its own module to
\* it and spawned the second guest from that module; it holds handles to
\* both environments and both guests.  The second guest holds a handle to
\* its environment and to itself.
InitRegistry ==
    /\ configs = [c \in Callers |-> IF c = 1 THEN (1 :> RootConfig) ELSE <<>>]
    /\ environments = [c \in Callers |-> IF c = 1 THEN (1 :> 1 @@ 2 :> 2) ELSE (1 :> 2)]
    /\ modules = [c \in Callers |-> IF c = 1 THEN (1 :> 2) ELSE <<>>]
    /\ processes = [c \in Callers |-> IF c = 1 THEN (1 :> 1 @@ 2 :> 2) ELSE (1 :> 2)]
    /\ errors = [c \in Callers |-> <<>>]
    /\ envs = <<Environment_new(RootConfig), Environment_new(RootConfig)>>
    /\ envOf = [c \in Callers |-> c]
    /\ out = [c \in Callers |-> Out(None, None)]
    /\ calls = 0
    /\ spawned = 0

NextRegistry ==
    \/ \E c \in Callers, name \in Names, version \in VersionStrings :
          \E env_id \in IdArgs(environments[c]), process_id \in IdArgs(processes[c]) :
             register_proc(c, name, version, env_id, process_id)
          /\ UNCHANGED <<procvars, decvars, linkvars, fuelvars>>
    \/ \E c \in Callers, name \in Names, version \in VersionStrings :
          \E env_id \in IdArgs(environments[c]) : unregister(c, name, version, env_id)
          /\ UNCHANGED <<procvars, decvars, linkvars, fuelvars>>
    \/ \E c \in Callers, name \in Names, query \in Queries, ptr_ok \in BOOLEAN :
          lookup(c, name, query, ptr_ok)
          /\ UNCHANGED <<procvars, decvars, linkvars, fuelvars>>

\* Two guests run, each in its environment.
InitGuests ==
    InitProcs /\ InitRegistry /\ InitDecode /\ InitLinker /\ InitStore

SpecRegistry == InitGuests /\ [][NextRegistry]_vars

\* A guest is about to make a host call with the arguments of a request.
InitRequests ==
    /\ InitProcs /\ InitHost /\ InitLinker /\ InitStore
    /\ req \in Requests /\ resp = NoResp

SpecDecode == InitRequests /\ [][NextDecode]_vars

\* An environment is about to build its linker from its allow-list.
InitFilters ==
    /\ InitProcs /\ InitHost /\ InitDecode /\ InitStore
    /\ filter \in Filters /\ linker = None

SpecLinker == InitFilters /\ [][NextLinker]_vars


Next ==
    \/ \E p \in Procs : HandleLink(p)
          /\ UNCHANGED <<hostvars, decvars, linkvars, fuelvars>>
    \/ \E p \in Procs : HandleUnLink(p)
          /\ UNCHANGED <<hostvars, decvars, linkvars, fuelvars>>
    \/ \E p \in Procs : HandleDieWhenLinkDies(p)
          /\ UNCHANGED <<hostvars, decvars, linkvars, fuelvars>>
    \/ \E p \in Procs : HandleKill(p)
          /\ UNCHANGED <<hostvars, decvars, linkvars, fuelvars>>
    \/ \E p \in Procs : HandleLinkDied(p)
          /\ UNCHANGED <<hostvars, decvars, linkvars, fuelvars>>
    \/ \E p \in Procs : PollWasm(p)
          /\ UNCHANGED <<hostvars, decvars, linkvars, fuelvars>>
    \/ \E p \in Procs : Yield(p)
          /\ UNCHANGED <<hostvars, decvars, linkvars, fuelvars>>
    \/ \E p \in Procs, why \in WasmExits : Finish(p, why)
          /\ UNCHANGED <<hostvars, decvars, linkvars, fuelvars>>
    \/ \E q \in Procs : SendKill(q)
          /\ UNCHANGED <<hostvars, decvars, linkvars, fuelvars>>
    \/ \E p \in Procs, trap \in {0, 1} : die_when_link_dies(p, trap)
          /\ UNCHANGED <<hostvars, decvars, linkvars, fuelvars>>
    \/ \E p \in Procs : this(p)
          /\ UNCHANGED <<hostvars, decvars, linkvars, fuelvars>>
    \/ \E p \in Procs : \E process_id \in ProcessIds(p), ptr_ok \in BOOLEAN :
          id(p, process_id, ptr_ok)
          /\ UNCHANGED <<hostvars, decvars, linkvars, fuelvars>>
    \/ \E p \in Procs, tag \in LinkArgs : \E process_id \in ProcessIds(p) :
          link(p, tag, process_id)
          /\ UNCHANGED <<hostvars, decvars, linkvars, fuelvars>>
    \/ \E p \in Procs : \E process_id \in ProcessIds(p) : unlink(p, process_id)
          /\ UNCHANGED <<hostvars, decvars, linkvars, fuelvars>>
    \/ \E p \in Procs, l \in LinkArgs, ok \in BOOLEAN : spawn(p, l, ok)
          /\ UNCHANGED <<hostvars, decvars, linkvars, fuelvars>>
    \/ \E p \in Procs : SpawnLinkChild(p)
          /\ UNCHANGED <<hostvars, decvars, linkvars, fuelvars>>
    \/ \E p \in Procs : SpawnTask(p)
          /\ UNCHANGED <<hostvars, decvars, linkvars, fuelvars>>
    \/ \E p \in Procs, ptr_ok \in BOOLEAN : SpawnReturn(p, ptr_ok)
          /\ UNCHANGED <<hostvars, decvars, linkvars, fuelvars>>

Spec == Init /\ [][Next]_vars

\* The guests may also sleep.
NextSleep ==
    \/ Next
    \/ \E p \in Procs : sleep_ms(p)
          /\ UNCHANGED <<hostvars, decvars, linkvars, fuelvars>>

\* The task of p takes the signal at the head of its channel.
HandleSignal(p) ==
    \/ HandleLink(p)
    \/ HandleUnLink(p)
    \/ HandleDieWhenLinkDies(p)
    \/ HandleKill(p)
    \/ HandleLinkDied(p)

\* Module::spawn and spawn_from_module go on after the yield.
SpawnStep(p) ==
    \/ SpawnLinkChild(p)
    \/ SpawnTask(p)
    \/ \E ptr_ok \in BOOLEAN : SpawnReturn(p, ptr_ok)

\* A fair scheduler: a task with a signal waiting is polled and takes it; a
\* guest that runs reaches the end of its unit of compute (or ends before);
\* a host call that is under way goes on.
Fair ==
    \A p \in Procs :
        /\ WF_vars(HandleSignal(p) /\ UNCHANGED <<hostvars, decvars, linkvars, fuelvars>>)
        /\ WF_vars(Yield(p) /\ UNCHANGED <<hostvars, decvars, linkvars, fuelvars>>)
        /\ WF_vars(SpawnStep(p) /\ UNCHANGED <<hostvars, decvars, linkvars, fuelvars>>)

SpecFair == Init /\ [][NextSleep]_vars /\ Fair

\* -------------------------------------------- processes that know each other
\* Two processes run and hold a handle to themselves and to each other (from
\* this, spawn or lookup); they are not linked yet; each has set
\* die_when_link_dies as it likes.
Known == {1, 2}

InitKnown ==
    /\ st = [q \in Procs |-> IF q \in Known THEN "select" ELSE "none"]
    /\ reason = [q \in Procs |-> "none"]
    /\ mailbox = [q \in Procs |-> <<>>]
    /\ links = [q \in Procs |-> <<>>]
    /\ die \in {d \in [Procs -> BOOLEAN] : \A q \in Procs \ Known : d[q]}
    /\ msgs = [q \in Procs |-> <<>>]
    /\ procTab = [q \in Procs |-> IF q \in Known THEN <<1, 2>> ELSE <<>>]
    /\ cont = [q \in Procs |-> NoCont]
    /\ mem = [q \in Procs |-> 0]
    /\ ops = 0
    /\ parent = [q \in Procs |-> NoParent]
    /\ hist = [q \in Procs |-> <<>>]
    /\ enq = [q \in Procs |-> <<>>]
    /\ proto = [q \in Procs |-> <<>>]
    /\ buffered = [q \in Procs |-> FALSE]

InitLinked == InitKnown /\ InitHost /\ InitDecode /\ InitLinker /\ InitStore

\* The process tasks and the host calls link, unlink and die_when_link_dies.
NextLinked ==
    \/ \E p \in Procs : HandleSignal(p)
          /\ UNCHANGED <<hostvars, decvars, linkvars, fuelvars>>
    \/ \E p \in Procs : PollWasm(p)
          /\ UNCHANGED <<hostvars, decvars, linkvars, fuelvars>>
    \/ \E p \in Procs : Yield(p)
          /\ UNCHANGED <<hostvars, decvars, linkvars, fuelvars>>
    \/ \E p \in Procs, why \in WasmExits : Finish(p, why)
          /\ UNCHANGED <<hostvars, decvars, linkvars, fuelvars>>
    \/ \E q \in Procs : SendKill(q)
          /\ UNCHANGED <<hostvars, decvars, linkvars, fuelvars>>
    \/ \E p \in Procs, trap \in {0, 1} : die_when_link_dies(p, trap)
          /\ UNCHANGED <<hostvars, decvars, linkvars, fuelvars>>
    \/ \E p \in Procs, tag \in LinkArgs : \E process_id \in ProcessIds(p) :
          link(p, tag, process_id)
          /\ UNCHANGED <<hostvars, decvars, linkvars, fuelvars>>
    \/ \E p \in Procs : \E process_id \in ProcessIds(p) : unlink(p, process_id)
          /\ UNCHANGED <<hostvars, decvars, linkvars, fuelvars>>

SpecLinked == InitLinked /\ [][NextLinked]_vars /\ Fair


\* ------------------------------------------------- processes linked in a graph
\* Every process runs, with die_when_link_dies left at its default, and the
\* links that have been established form an undirected graph: both ends of
\* an edge hold the other end in their links.
Pairs == {e \in SUBSET Procs : Cardinality(e) = 2}

LinksOf(E) == [p \in Procs |-> [q \in {r \in Procs : {p, r} \in E} |-> None]]

InitMesh ==
    /\ st = [q \in Procs |-> "select"]
    /\ reason = [q \in Procs |-> "none"]
    /\ mailbox = [q \in Procs |-> <<>>]
    /\ \E E \in SUBSET Pairs : links = LinksOf(E)
    /\ die = [q \in Procs |-> TRUE]
    /\ msgs = [q \in Procs |-> <<>>]
    /\ procTab = [q \in Procs |-> <<>>]
    /\ cont = [q \in Procs |-> NoCont]
    /\ mem = [q \in Procs |-> 0]
    /\ ops = 0
    /\ parent = [q \in Procs |-> NoParent]
    /\ hist = [q \in Procs |-> <<>>]
    /\ enq = [q \in Procs |-> <<>>]
    /\ proto = [q \in Procs |-> <<>>]
    /\ buffered = [q \in Procs |-> FALSE]

InitGraph == InitMesh /\ InitHost /\ InitDecode /\ InitLinker /\ InitStore

\* The process tasks: a process ends by itself or is killed, and the linked
\* ones handle the LinkDied they are sent.
NextGraph ==
    \/ \E p \in Procs : HandleKill(p)
          /\ UNCHANGED <<hostvars, decvars, linkvars, fuelvars>>
    \/ \E p \in Procs : HandleLinkDied(p)
          /\ UNCHANGED <<hostvars, decvars, linkvars, fuelvars>>
    \/ \E p \in Procs : PollWasm(p)
          /\ UNCHANGED <<hostvars, decvars, linkvars, fuelvars>>
    \/ \E p \in Procs : Yield(p)
          /\ UNCHANGED <<hostvars, decvars, linkvars, fuelvars>>
    \/ \E p \in Procs, why \in WasmExits : Finish(p, why)
          /\ UNCHANGED <<hostvars, decvars, linkvars, fuelvars>>
    \/ \E q \in Procs : SendKill(q)
          /\ UNCHANGED <<hostvars, decvars, linkvars, fuelvars>>

SpecGraph == InitGraph /\ [][NextGraph]_vars /\ Fair


\* ============================================================== properties
Live(q) == st[q] \in {"select", "wasm"}

IsPrefix(s, t) == Len(s) <= Len(t) /\ SubSeq(t, 1, Len(s)) = s

Occurs(sig, log) == \E i \in 1..Len(log) : log[i] = sig

\* The children spawned with a link.
LinkedChildren == {c \in Procs : parent[c].link # None}

\* p takes the step that ends it.
Dies(p) == Live(p) /\ st'[p] = "dead"

\* The steps of a linked Module::spawn, in the order of the code.
SpawnOrder == <<"LinkParent", "Yield", "LinkChild", "Task">>

\* C1: in a linked spawn, Link(None, child) is put into the parent's channel,
\* then the caller yields, then Link(tag, parent) is put into the child's
\* channel, and only then is the child handed to the scheduler: the steps
\* taken for a linked child are always a prefix of that order, the child's
\* channel is empty until the third step, and a child that runs or has run
\* has gone through all of them.
C1_LinkOrder ==
    \A c \in LinkedChildren :
        /\ IsPrefix(proto[c], SpawnOrder)
        /\ Len(proto[c]) >= 1
        /\ Len(proto[c]) < 3 => st[c] \in {"created", "aborted"} /\ mailbox[c] = <<>>
        /\ Len(proto[c]) = 3 =>
              /\ st[c] = "created"
              /\ mailbox[c] = <<Link(parent[c].link, parent[c].id)>>
        /\ st[c] \in {"select", "wasm", "dead"} => proto[c] = SpawnOrder

C1_Witness ==
    \E c \in LinkedChildren : proto[c] = SpawnOrder /\ Live(c) /\ Live(parent[c].id)

\* The first signal a linked child handles is the Link of its spawn, and it
\* has handled it when its Wasm code runs.
FirstHandled ==
    \A c \in LinkedChildren :
        /\ Live(c) /\ hist[c] # <<>> => hist[c][1] = Link(parent[c].link, parent[c].id)
        /\ st[c] = "wasm" => hist[c] # <<>>

\* The death of c puts LinkDied(c, tag of the spawn, reason) into the
\* channel of its parent.
ReportedToParent(c) ==
    LET par == parent[c].id
    IN  enq'[par] = Append(enq[par], LinkDied(c, parent[c].link, reason'[c]))
        /\ mailbox'[par] = Append(mailbox[par], LinkDied(c, parent[c].link, reason'[c]))

\* C2 as stated: the Link of the spawn is the first signal a linked child
\* handles, before its Wasm code runs, and every termination of the child
\* sends LinkDied(child, t, reason) to the parent.
C2_AnyExitReported ==
    [][/\ FirstHandled'
       /\ \A c \in LinkedChildren :
             Dies(c) /\ ReceiverExists(parent[c].id) => ReportedToParent(c)]_vars

\* C2, amended: the Link of the spawn is the first signal a linked child
\* handles, before its Wasm code runs, and every termination of a child that
\* has not handled an UnLink of its parent sends LinkDied(child, t, reason)
\* to the parent (the send is dropped when the parent is gone).
C2_LinkedExitReported ==
    [][/\ FirstHandled'
       /\ \A c \in LinkedChildren :
             /\ Dies(c)
             /\ ReceiverExists(parent[c].id)
             /\ ~Occurs(UnLink(parent[c].id), hist[c])
             => ReportedToParent(c)]_vars

C2_Witness ==
    \E c \in LinkedChildren :
        /\ st[c] = "dead"
        /\ reason[c] \in {"trapped", "killed"}
        /\ Live(parent[c].id)
        /\ Occurs(LinkDied(c, parent[c].link, reason[c]), mailbox[parent[c].id])

\* When a linked spawn is about to return, and for as long as the parent
\* lives afterwards, the parent has handled Link(None, child); at the return
\* the child is in the parent's links.
ParentLinked ==
    /\ \A p \in Procs :
          cont[p].phase \in {2, 3} /\ cont[p].tag # None =>
              /\ cont[p].child \in DOMAIN links[p]
              /\ Occurs(Link(None, cont[p].child), hist[p])
    /\ \A c \in LinkedChildren :
          proto[c] = SpawnOrder /\ Live(parent[c].id) =>
              Occurs(Link(None, c), hist[parent[c].id])

\* The death of the parent of c puts a LinkDied of the parent into the
\* channel of c.
ReportedToChild(c) ==
    /\ Len(enq'[c]) = Len(enq[c]) + 1
    /\ LET sig == enq'[c][Len(enq'[c])]
       IN  /\ sig.type = "LinkDied"
           /\ sig.peer = parent[c].id
           /\ sig.reason = reason'[parent[c].id]
    /\ mailbox'[c] = Append(mailbox[c], enq'[c][Len(enq'[c])])

\* C3 as stated: when a linked spawn returns the parent has handled
\* Link(None, child), whatever was in its channel at the call, and every
\* termination of the parent after the return sends LinkDied to the child.
C3_ParentExitReported ==
    [][/\ ParentLinked'
       /\ \A c \in LinkedChildren :
             /\ proto[c] = SpawnOrder
             /\ Dies(parent[c].id)
             /\ ReceiverExists(c)
             => ReportedToChild(c)]_vars

\* C3, amended: when a linked spawn returns the parent has handled
\* Link(None, child), whatever was in its channel at the call, and every
\* termination of a parent that has not handled an UnLink of the child after
\* the return sends LinkDied to the child (dropped when the child is gone).
C3_LinkedParentExitReported ==
    [][/\ ParentLinked'
       /\ \A c \in LinkedChildren :
             /\ proto[c] = SpawnOrder
             /\ Dies(parent[c].id)
             /\ ReceiverExists(c)
             /\ ~Occurs(UnLink(c), hist[parent[c].id])
             => ReportedToChild(c)]_vars

\* A linked spawn returns after the parent handled a signal that was in its
\* channel before the Link, and the parent's death has reached the child.
C3_Witness ==
    \E c \in LinkedChildren :
        LET p == parent[c].id
        IN  /\ st[p] = "dead"
            /\ proto[c] = SpawnOrder
            /\ Live(c)
            /\ \E i \in 1..Len(enq[c]) :
                  /\ enq[c][i].type = "LinkDied"
                  /\ enq[c][i].peer = p
                  /\ enq[c][i].reason = reason[p]

C3_WitnessReturn ==
    \E p \in Procs :
        /\ cont[p].phase = 3
        /\ cont[p].tag # None
        /\ Len(hist[p]) >= 2
        /\ hist[p][Len(hist[p])] = Link(None, cont[p].child)

\* The signal p handled last.
LastHandled(p) == hist[p][Len(hist[p])]

\* The signal put last into the channel of q by the step.
LastSent(q) == enq'[q][Len(enq'[q])]

\* A process that handles Link(tag, peer) has the peer in its links
\* afterwards: with the tag of the signal when the peer was not in its links,
\* with the tag it had for the peer otherwise.
LinkHandled ==
    \A p \in Procs :
        /\ st[p] = "select" /\ mailbox[p] # <<>>
        /\ Head(mailbox[p]).type = "Link"
        /\ hist'[p] # hist[p]
        => LET sig == Head(mailbox[p])
           IN  /\ hist'[p] = Append(hist[p], sig)
               /\ sig.peer \in DOMAIN links'[p]
               /\ links'[p][sig.peer] = IF sig.peer \in DOMAIN links[p]
                                        THEN links[p][sig.peer] ELSE sig.tag
               /\ \A q \in DOMAIN links[p] : links'[p][q] = links[p][q]

\* link(tag, process_id) on a live target puts Link(tag, caller) into the
\* target's channel and Link(tag, target) into the caller's.
LinkSendsBoth ==
    \A p \in Procs, tag \in LinkArgs : \A process_id \in ProcessIds(p) :
        link(p, tag, process_id) /\ Resolves(p, process_id) =>
            LET target == procTab[p][process_id]
                t == IF tag = 0 THEN None ELSE Some(tag)
            IN  /\ LastSent(p) = Link(t, target)
                /\ ReceiverExists(target) /\ target # p =>
                      /\ enq'[target] = Append(enq[target], Link(t, p))
                      /\ enq'[p] = Append(enq[p], Link(t, target))
                /\ target = p =>
                      enq'[p] = enq[p] \o <<Link(t, p), Link(t, p)>>

\* The last signals p and q handled are the two Links of one link call. Only
\* a link call sends two Links with the same tag that is not None: the Link
\* spawn sends to the parent has no tag.
BothLinked(p, q) ==
    /\ Live(p) /\ Live(q)
    /\ hist[p] # <<>> /\ hist[q] # <<>>
    /\ LastHandled(p).type = "Link" /\ LastHandled(p).peer = q
    /\ LastHandled(q).type = "Link" /\ LastHandled(q).peer = p
    /\ LastHandled(p).tag = LastHandled(q).tag
    /\ LastHandled(p).tag # None

\* C4 as stated: after link(tag, P) by A and after both handled the Link of
\* the call, each has the other in its links with the tag of the call,
\* whatever the links were before.
C4_SymmetricAnyPrior ==
    \A p, q \in Procs :
        BothLinked(p, q) =>
            /\ q \in DOMAIN links[p] /\ links[p][q] = LastHandled(p).tag
            /\ p \in DOMAIN links[q] /\ links[q][p] = LastHandled(q).tag

\* C4, amended: link(tag, P) by A sends Link(tag, A) to P and Link(tag, P) to
\* A; after both handled them each has the other in its links, with the tag
\* of the call where it did not have the other in its links before and with
\* the tag it had before otherwise.
C4_SymmetricLinks ==
    [][LinkSendsBoth /\ LinkHandled]_vars

C4_Witness ==
    \E p, q \in Procs :
        /\ p # q
        /\ BothLinked(p, q)
        /\ links[p][q] = LastHandled(p).tag
        /\ links[q][p] = LastHandled(p).tag

\* p holds a handle with this id.
HasHandle(p, process_id) == process_id \in 1..Len(procTab[p])

\* A spawn with link = 0 sends no signal and changes no links.
SpawnZeroSendsNothing ==
    \A p \in Procs :
        (\E ok \in BOOLEAN : spawn(p, 0, ok)) =>
            /\ enq' = enq /\ mailbox' = mailbox /\ links' = links
            /\ cont'[p].phase \in {0, 3}

\* link(0, process_id) sends no signal.
LinkZeroSendsNothing ==
    \A p \in Procs : \A process_id \in ProcessIds(p) :
        link(p, 0, process_id) /\ HasHandle(p, process_id) =>
            enq' = enq /\ mailbox' = mailbox

\* link(0, process_id) sends Link(None, target) to the caller, and
\* Link(None, caller) to a target that lives.
LinkZeroSendsUntagged ==
    \A p \in Procs : \A process_id \in ProcessIds(p) :
        link(p, 0, process_id) /\ HasHandle(p, process_id) =>
            LET target == procTab[p][process_id]
            IN  /\ LastSent(p) = Link(None, target)
                /\ Len(enq'[p]) > Len(enq[p])
                /\ Live(target) /\ target # p =>
                      enq'[target] = Append(enq[target], Link(None, p))

\* A non-zero link argument of spawn is the tag of the Link sent to the
\* child, and the tag a process stores for a peer is the tag of the LinkDied
\* its death sends to that peer.
TagCarried ==
    /\ \A p \in Procs :
          SpawnLinkChild(p) =>
              LET c == cont[p].child
              IN  /\ parent[c].link # None
                  /\ enq'[c] = Append(enq[c], Link(parent[c].link, p))
    /\ \A p, q \in Procs :
          Dies(p) /\ q \in DOMAIN links[p] /\ q # p /\ Live(q) =>
              /\ LastSent(q).type = "LinkDied"
              /\ LastSent(q).tag = links[p][q]

Handles(p) ==
    /\ st[p] = "select"
    /\ mailbox[p] # <<>>
    /\ hist'[p] # hist[p] \/ st'[p] # "select"

\* The death of p puts LinkDied(p, tag stored for q, reason) into the channel
\* of every living q in its links, and nothing into the others.
NotifiesLinks(p) ==
    \A q \in Procs \ {p} :
        Live(q) =>
            enq'[q] = IF q \in DOMAIN links[p]
                      THEN Append(enq[q], LinkDied(p, links[p][q], reason'[p]))
                      ELSE enq[q]

\* C6: a linked child that traps sends LinkDied(child, t, trapped) to its
\* parent; a process with die_when_link_dies = true (the default) that handles
\* a LinkDied terminates with reason killed-by-link, and every other living
\* process in its links is sent a LinkDied for it.
C6_LinkPropagation ==
    [][/\ \A c \in LinkedChildren :
             /\ Dies(c) /\ reason'[c] = "trapped"
             /\ Live(parent[c].id)
             /\ ~Occurs(UnLink(parent[c].id), hist[c])
             => enq'[parent[c].id] =
                   Append(enq[parent[c].id], LinkDied(c, parent[c].link, "trapped"))
       /\ \A p \in Procs :
             Handles(p) /\ Head(mailbox[p]).type = "LinkDied" /\ die[p] =>
                /\ st'[p] = "dead"
                /\ reason'[p] = "killed-by-link"
                /\ NotifiesLinks(p)]_vars

C6_Witness ==
    \E g, p, c \in Procs :
        /\ parent[p] = [id |-> g, link |-> Some(1)]
        /\ parent[c].id = p /\ parent[c].link # None
        /\ reason[c] = "trapped"
        /\ reason[p] = "killed-by-link"
        /\ Live(g)
        /\ Occurs(LinkDied(p, Some(1), "killed-by-link"), mailbox[g])

\* C7: a process that called die_when_link_dies(0) before any LinkDied was
\* sent to it is not terminated by a LinkDied: handling it leaves the process
\* running and appends the LinkDied to its message mailbox.
C7_BufferedLink ==
    [][\A p \in Procs :
          Handles(p) /\ Head(mailbox[p]).type = "LinkDied" /\ buffered[p] =>
             /\ st'[p] = "select"
             /\ msgs'[p] = Append(msgs[p], Head(mailbox[p]))]_vars

C7_Witness ==
    \E c \in LinkedChildren :
        LET p == parent[c].id
        IN  /\ Live(p) /\ buffered[p]
            /\ st[c] = "dead"
            /\ msgs[p] = <<LinkDied(c, parent[c].link, reason[c])>>

\* The reason of a termination is the one of its cause: a Kill handled, a
\* LinkDied handled, or the way the Wasm code ended.
ReasonOfCause(p) ==
    /\ st[p] = "select" =>
          reason'[p] = IF Head(mailbox[p]).type = "Kill"
                       THEN "killed" ELSE "killed-by-link"
    /\ st[p] = "wasm" => reason'[p] \in WasmExits

\* C8: a process that terminates, for any cause, sends exactly one
\* LinkDied(its id, tag, reason) to each peer in its links at that moment,
\* with the tag stored for the peer and the reason of the termination, and
\* sends nothing to anyone else; with empty links it sends no LinkDied.
C8_ExitNotifiesLinks ==
    [][\A p \in Procs :
          Dies(p) =>
             /\ ReasonOfCause(p)
             /\ NotifiesLinks(p)
             /\ links[p] = <<>> =>
                   \A q \in Procs \ {p} : ReceiverExists(q) => enq'[q] = enq[q]]_vars

C8_Witness ==
    \E p, q, r \in Procs :
        /\ p # q /\ q # r /\ p # r
        /\ st[p] = "dead"
        /\ Live(q) /\ Live(r)
        /\ \E t \in {None, Some(1), Some(2)} :
              Occurs(LinkDied(p, t, reason[p]), mailbox[q])
        /\ \A i \in 1..Len(enq[r]) : enq[r][i].type # "LinkDied"

\* C9: a handle whose process has terminated is still usable: id writes the
\* process's UUID, link and unlink complete without a trap, the caller runs
\* on, and nothing is put into the channel of the dead process.
C9_DeadHandleUsable ==
    [][\A p \in Procs : \A process_id \in ProcessIds(p) :
          HasHandle(p, process_id) /\ Terminated(procTab[p][process_id]) =>
             LET target == procTab[p][process_id]
             IN  /\ id(p, process_id, TRUE) =>
                       st'[p] = "wasm" /\ mem'[p] = target
                 /\ (\E tag \in LinkArgs : link(p, tag, process_id))
                    \/ unlink(p, process_id) =>
                       /\ st'[p] = "wasm"
                       /\ Len(enq'[p]) = Len(enq[p]) + 1
                       /\ LastSent(p).peer = target
                       /\ mailbox'[target] = <<>>]_vars

\* The caller linked to a process after that process had died: the LinkDied
\* of the death is in the caller's channel before the Link of the call.
C9_Witness ==
    \E p, c \in Procs :
        /\ Live(p) /\ st[c] = "dead"
        /\ \E process_id \in 1..Len(procTab[p]) : procTab[p][process_id] = c
        /\ \E i, j \in 1..Len(enq[p]) :
              /\ i < j
              /\ enq[p][i].type = "LinkDied" /\ enq[p][i].peer = c
              /\ enq[p][j].type = "Link" /\ enq[p][j].peer = c

\* The signals a process handled and the ones waiting in its channel are,
\* in this order, the signals sent to it in the order they were sent.
HandledInOrder ==
    \A p \in Procs :
        /\ Live(p) => enq[p] = hist[p] \o mailbox[p]
        /\ st[p] = "created" => enq[p] = mailbox[p] /\ hist[p] = <<>>

\* A Kill sent to a parent before the Link(None, child) of a spawn is handled
\* before that Link: a living parent has handled neither.
KillBeforeLink ==
    \A c \in LinkedChildren :
        LET p == parent[c].id
        IN  Live(p) =>
               \A i, j \in 1..Len(enq[p]) :
                  i < j /\ enq[p][i] = Kill /\ enq[p][j] = Link(None, c) =>
                     Len(hist[p]) < i

\* C10: every process handles the signals of its channel in the order they
\* were put into it, so two signals of one sender are handled in the order
\* sent; a Kill in the parent's channel before Link(None, child) is handled
\* before that Link.
C10_Fifo ==
    HandledInOrder /\ KillBeforeLink

C10_Witness ==
    \E c \in LinkedChildren :
        LET p == parent[c].id
        IN  /\ Live(p)
            /\ st[c] = "created"
            /\ Len(mailbox[p]) >= 2
            /\ mailbox[p][1] = Kill
            /\ mailbox[p][2] = Link(None, c)

\* A Kill is waiting in the channel of a living process.
KillPending(p) == Live(p) /\ Occurs(Kill, mailbox[p])

\* C11 as stated: under a fair scheduler a process with a Kill in its channel
\* eventually terminates with reason killed.
C11_KillEndsKilled ==
    \A p \in Procs : KillPending(p) ~> (st[p] = "dead" /\ reason[p] = "killed")

\* C11, amended: under a fair scheduler a process with a Kill in its channel
\* eventually terminates, also when its Wasm code loops forever or sleeps;
\* the reason is killed when the Kill is the signal that ends it, and the
\* reason of the earlier cause when its Wasm code ends or a LinkDied ends it
\* before the Kill is handled.
C11_KillEnds ==
    /\ \A p \in Procs : KillPending(p) ~> (st[p] = "dead")
    /\ [][\A p \in Procs :
             /\ Handles(p) /\ Head(mailbox[p]) = Kill =>
                   st'[p] = "dead" /\ reason'[p] = "killed"
             /\ KillPending(p) /\ st'[p] = "dead" /\ reason'[p] # "killed" =>
                   \/ st[p] = "wasm" /\ reason'[p] \in WasmExits
                   \/ /\ st[p] = "select"
                      /\ Head(mailbox[p]).type = "LinkDied"
                      /\ reason'[p] = "killed-by-link"]_vars

\* A sleeping process with a Kill in its channel.
C11_Witness ==
    \E p \in Procs :
        /\ st[p] = "select"
        /\ cont[p].phase = 4
        /\ mailbox[p] = <<Kill>>

\* The resource tables of the guest c.
Tables(c) == <<configs[c], environments[c], modules[c], processes[c], errors[c]>>

\* The ids that do not resolve in a table.
Missing(t) == IdArgs(t) \ DOMAIN t

\* A host call of c with a resource id that does not resolve in its table.
UnresolvedCall(c) ==
    \/ \E config_id \in Missing(configs[c]) :
          \/ drop_config(c, config_id)
          \/ \E namespace \in Namespaces : allow_namespace(c, config_id, namespace)
          \/ \E valid, ptr_ok \in BOOLEAN : add_plugin(c, config_id, "plugin", valid, ptr_ok)
          \/ \E ok, ptr_ok \in BOOLEAN : create_environment(c, config_id, ok, ptr_ok)
    \/ \E env_id \in Missing(environments[c]) :
          \/ drop_environment(c, env_id)
          \/ \E ok, ptr_ok \in BOOLEAN : add_module(c, env_id, ok, ptr_ok)
          \/ \E ok, ptr_ok \in BOOLEAN : add_this_module(c, env_id, ok, ptr_ok)
          \/ \E version \in VersionStrings : unregister(c, "calc", version, env_id)
          \/ \E version \in VersionStrings, process_id \in IdArgs(processes[c]) :
                register_proc(c, "calc", version, env_id, process_id)
    \/ \E mod_id \in Missing(modules[c]) :
          \/ drop_module(c, mod_id)
          \/ \E ok, ptr_ok \in BOOLEAN : spawn_module(c, mod_id, ok, ptr_ok)
    \/ \E process_id \in Missing(processes[c]) :
          \/ drop_process(c, process_id)
          \/ clone_process(c, process_id)
          \/ \E version \in VersionStrings, env_id \in IdArgs(environments[c]) :
                register_proc(c, "calc", version, env_id, process_id)

\* A drop of an id that resolves: the call returns and the id is gone from
\* its table.
DropsResolved(c) ==
    /\ \A config_id \in DOMAIN configs[c] :
          drop_config(c, config_id) =>
             ~out'[c].trap /\ config_id \notin DOMAIN configs'[c]
    /\ \A env_id \in DOMAIN environments[c] :
          drop_environment(c, env_id) =>
             ~out'[c].trap /\ env_id \notin DOMAIN environments'[c]
    /\ \A mod_id \in DOMAIN modules[c] :
          drop_module(c, mod_id) =>
             ~out'[c].trap /\ mod_id \notin DOMAIN modules'[c]
    /\ \A process_id \in DOMAIN processes[c] :
          drop_process(c, process_id) =>
             ~out'[c].trap /\ process_id \notin DOMAIN processes'[c]

C13_ConfigSnapshot ==
    [][/\ \A e \in 1..Len(envs) : envs'[e].config = envs[e].config
       /\ \A c \in Callers : \A config_id \in DOMAIN configs[c] :
             \A ptr_ok \in BOOLEAN :
                create_environment(c, config_id, TRUE, ptr_ok) =>
                   /\ Len(envs') = Len(envs) + 1
                   /\ envs'[Len(envs')].config = configs[c][config_id]]_vars

\* An environment has been made, and the config it was made from has since
\* been edited or dropped: no config of the guest equals the environment's.
C13_Witness ==
    /\ Len(envs) = 2
    /\ calls = 3
    /\ \E c \in Callers :
          /\ environments[c] # <<>>
          /\ \A config_id \in DOMAIN configs[c] :
                configs[c][config_id] # envs[2].config

\* C14 as stated: create_environment consumes the config: after a
\* create_environment(config_id) that succeeded, config_id no longer
\* resolves in the caller's config table.
C14_ConfigConsumed ==
    [][\A c \in Callers : \A config_id \in DOMAIN configs[c] :
          \A ptr_ok \in BOOLEAN :
             create_environment(c, config_id, TRUE, ptr_ok) /\ ~out'[c].trap =>
                config_id \notin DOMAIN configs'[c]]_vars

\* An environment has been made from a config that the guest then dropped
\* itself: the config was still in its table after create_environment.
C14_Witness ==
    \E c \in Callers :
        /\ calls = 3
        /\ Len(envs) = 2
        /\ environments[c] # <<>>
        /\ configs[c] = <<>>
        /\ ~out[c].trap

\* C15: for every allow-list and every host call H of lunatic::process, H is
\* registered in the linker iff the allow-list is empty or one of its
\* elements is a string prefix of lunatic::process::H.
C15_LinkableIffPrefix ==
    linker # None =>
       \A H \in ProcessApi :
          H \in linker[1] <=>
             \/ filter = <<>>
             \/ \E i \in 1..Len(filter) :
                   IsPrefix(filter[i], ProcessNamespace \o <<":", ":">> \o H)

\* A linker built with an allow-list that lets some host calls of
\* lunatic::process in and keeps others out.
C15_Witness ==
    /\ linker # None
    /\ filter # <<>>
    /\ linker[1] # {}
    /\ linker[1] # ProcessApi

\* The registry of the environment of c's module.
OwnRegistry(c) == envs[envOf[c]].registry

\* The versions registered under name that satisfy the query.
MatchingVersions(registry, name, query) ==
    {version \in VersionStrings :
        <<name, version>> \in DOMAIN registry /\ Satisfies(version, query)}

\* register(name, version, process) with a valid version puts the process
\* under (name, version) in the registry of the environment named.
RegisterInserts(c) ==
    \A name \in Names, version \in VersionStrings :
       \A env_id \in DOMAIN environments[c], process_id \in DOMAIN processes[c] :
          register_proc(c, name, version, env_id, process_id) /\ ValidVersion(version) =>
             /\ out'[c].ret = Some(0)
             /\ envs'[environments[c][env_id]].registry[<<name, version>>] =
                   processes[c][process_id]

\* lookup with a valid query: status 2 when no version registered under the
\* name satisfies it; otherwise status 0 and the id written is a handle to
\* the process registered under the highest version that satisfies it.
LookupHighest(c) ==
    \A name \in Names, query \in Queries :
       lookup(c, name, query, TRUE) /\ ValidQuery(query) =>
          LET m == MatchingVersions(OwnRegistry(c), name, query)
          IN  IF m = {}
              THEN out'[c].ret = Some(2) /\ processes' = processes
              ELSE /\ out'[c].ret = Some(0)
                   /\ out'[c].written # None
                   /\ \E version \in m :
                         /\ \A other \in m : ~Less(version, other)
                         /\ processes'[c][out'[c].written[1]] =
                               OwnRegistry(c)[<<name, version>>]

\* C16: register(n, v, p) puts p under (n, v), and lookup(n, "=v") then
\* returns a handle to p; lookup with a range returns the process under the
\* highest version registered under the name that satisfies the range,
\* whatever the order of the registrations, and status 2 when none does.
C16_RegistryLookup ==
    [][\A c \in Callers : RegisterInserts(c) /\ LookupHighest(c)]_vars

\* Two processes are registered under calc 1.2.3 and calc 1.3.0, in one
\* order or the other, and a lookup has returned a handle to the one under
\* 1.3.0.
C16_Witness ==
    \E c \in Callers :
        LET registry == OwnRegistry(c)
        IN  /\ calls = 3
            /\ <<"calc", <<1, 2, 3>>>> \in DOMAIN registry
            /\ <<"calc", <<1, 3, 0>>>> \in DOMAIN registry
            /\ registry[<<"calc", <<1, 2, 3>>>>] # registry[<<"calc", <<1, 3, 0>>>>]
            /\ out[c].ret = Some(0)
            /\ out[c].written # None
            /\ processes[c][out[c].written[1]] = registry[<<"calc", <<1, 3, 0>>>>]

\* register and unregister change the registry of the environment env_id
\* names, which need not be the caller's, and no other.
RegistersInNamed(c) ==
    \A name \in Names, version \in VersionStrings :
       \A env_id \in DOMAIN environments[c] :
          (\/ unregister(c, name, version, env_id)
           \/ \E process_id \in DOMAIN processes[c] :
                 register_proc(c, name, version, env_id, process_id)) =>
             \A e \in 1..Len(envs) : e # environments[c][env_id] => envs'[e] = envs[e]

\* lookup changes no registry and answers from the registry of the
\* environment of the caller's module alone: status 2 exactly when no entry
\* of that registry matches, whatever the other registries hold, and else a
\* handle to a process registered there under the name.
LooksUpOwn(c) ==
    \A name \in Names, query \in Queries :
       lookup(c, name, query, TRUE) /\ ValidQuery(query) =>
          /\ envs' = envs
          /\ out'[c].ret = Some(2) <=>
                MatchingVersions(OwnRegistry(c), name, query) = {}
          /\ out'[c].ret = Some(0) =>
                \E version \in MatchingVersions(OwnRegistry(c), name, query) :
                   processes'[c][out'[c].written[1]] = OwnRegistry(c)[<<name, version>>]

\* C17: lookup consults only the registry of the environment the caller
\* belongs to, and register and unregister act on the environment named by
\* env_id: an entry of environment E is returned to the callers of E, and a
\* caller of another environment gets status 2 unless its own environment
\* has a matching entry.
C17_LookupOwnEnvironment ==
    [][\A c \in Callers : RegistersInNamed(c) /\ LooksUpOwn(c)]_vars

\* The first guest has registered a process in the second environment, to
\* which it holds a handle, its own registry is empty, and the second guest,
\* which belongs to the second environment, has looked the process up.
C17_Witness ==
    /\ calls = 2
    /\ envOf[1] # envOf[2]
    /\ envs[envOf[1]].registry = <<>>
    /\ out[1] = Out(Some(0), None)
    /\ out[2].ret = Some(0)
    /\ out[2].written # None
    /\ \E k \in DOMAIN envs[envOf[2]].registry :
          processes[2][out[2].written[1]] = envs[envOf[2]].registry[k]

\* A host call of c with an id pointer inside the memory that meets a
\* recoverable error of add_plugin, create_environment, add_module,
\* add_this_module, spawn or inherit_spawn.
DomainError(c) ==
    \/ \E config_id \in DOMAIN configs[c] :
          \/ add_plugin(c, config_id, "plugin", FALSE, TRUE)
          \/ create_environment(c, config_id, FALSE, TRUE)
    \/ \E env_id \in DOMAIN environments[c] :
          \/ add_module(c, env_id, FALSE, TRUE)
          \/ add_this_module(c, env_id, FALSE, TRUE)
    \/ \E module_id \in DOMAIN modules[c] : spawn_module(c, module_id, FALSE, TRUE)
    \/ inherit_spawn(c, FALSE, TRUE)

\* lookup of c with a query that is no semver requirement.
LookupError(c) ==
    \E name \in Names, query \in Queries :
       lookup(c, name, query, TRUE) /\ ~ValidQuery(query)

\* The call returns 1, an error resource is added to the caller and its id
\* is what is written to the id pointer.
ErrorReported(c) ==
    /\ ~out'[c].trap
    /\ out'[c].ret = Some(1)
    /\ out'[c].written # None
    /\ out'[c].written[1] \notin DOMAIN errors[c]
    /\ DOMAIN errors'[c] = DOMAIN errors[c] \cup {out'[c].written[1]}

InMemory(ptr, len, size) == AtMost(Plus(ptr, len), size)

\* Both regions of the request lie inside the memory and the first is a
\* UTF-8 string.
RegionsInside(r) ==
    /\ InMemory(r.func_ptr, r.func_len, r.size)
    /\ InMemory(r.params_ptr, r.params_len, r.size)
    /\ r.utf8

\* The params region is malformed: its length is no multiple of 17, or the
\* first byte of one of its records is none of 0x7F, 0x7E, 0x7B.
Malformed(r) ==
    LET len == r.params_len.hi * W16 + r.params_len.lo
    IN  \/ len % 17 # 0
        \/ \E k \in 1..(len \div 17) : TagAt(r.tags, k) \notin {127, 126, 123}

\* C19 as stated: spawn and inherit_spawn trap whenever the params region is
\* malformed: a length that is no multiple of 17, or a record with a tag
\* byte that is not 0x7F, 0x7E or 0x7B.
C19_MalformedParamsTrap ==
    [][spawn_args /\ RegionsInside(req) /\ Malformed(req) =>
          resp'.outcome = "trap"]_vars

\* A params region of 18 bytes has been decoded into one param.
C19_Witness ==
    /\ req.params_len = U(0, 18)
    /\ resp.outcome = "ok"
    /\ Len(resp.params) = 1

\* The ranges the request asks for.
Requested(r) ==
    {<<r.func_ptr, Plus(r.func_ptr, r.func_len)>>,
     <<r.params_ptr, Plus(r.params_ptr, r.params_len)>>}

\* C20 as stated: for all 32-bit ptr and len, pairs whose sum exceeds
\* 2^32 - 1 included, bytes are read only from a range [ptr, ptr + len) that
\* was asked for and lies wholly inside the memory, and a range that does
\* not lie inside the memory ends the call in a trap.
C20_ReadsInsideOrTraps ==
    [][spawn_args \/ name_args =>
          /\ \A range \in resp'.read :
                range \in Requested(req) /\ AtMost(range[2], req.size)
          /\ ~InMemory(req.func_ptr, req.func_len, req.size) =>
                resp'.outcome = "trap"
          /\ (/\ InMemory(req.func_ptr, req.func_len, req.size)
              /\ req.utf8
              /\ ~InMemory(req.params_ptr, req.params_len, req.size)) =>
                resp'.outcome = "trap"]_vars

\* A call whose ptr + len does not fit 32 bits has ended in a panic of the
\* host.
C20_Witness ==
    /\ resp.outcome = "panic"
    /\ \/ ~FitsU32(Plus(req.func_ptr, req.func_len))
       \/ ~FitsU32(Plus(req.params_ptr, req.params_len))

\* The instructions a limit of k units of compute allows.
Allowance == max_fuel_arg * UNIT_OF_COMPUTE_IN_INSTRUCTIONS

\* C21: with max_fuel = k > 0 a loop that never ends runs at most k units of
\* compute (k * 10_000 instructions) and is then ended by the fuel trap, with
\* reason fuel-exhausted; with max_fuel = 0 it is never ended for fuel; in
\* both cases it has yielded to the scheduler once for every unit of compute
\* it has started.
C21_FuelLimit ==
    /\ [](/\ max_fuel_arg > 0 => consumed <= Allowance
          /\ run = "ended" =>
                /\ max_fuel_arg > 0
                /\ consumed = Allowance
                /\ exit_reason = "fuel-exhausted"
          /\ consumed <= yields * UNIT_OF_COMPUTE_IN_INSTRUCTIONS
          /\ consumed + fuel = yields * UNIT_OF_COMPUTE_IN_INSTRUCTIONS)
    /\ (max_fuel_arg > 0) ~> (run = "ended")

\* A loop under a limit of two units has been ended by the fuel trap after
\* two yields and 20 000 instructions.
C21_Witness ==
    /\ max_fuel_arg = 2
    /\ run = "ended"
    /\ yields = 2
    /\ consumed = 2 * UNIT_OF_COMPUTE_IN_INSTRUCTIONS

\* C22: a spawn or inherit_spawn that fails recoverably (the module does not
\* instantiate or does not export the entry function) starts no process
\* task, adds no handle to the caller's table and sends no Link to the
\* caller or to a child, whatever the link argument; the caller runs on.
C22_FailedSpawnNoEffect ==
    [][\A p \in Procs, link_arg \in LinkArgs :
          spawn(p, link_arg, FALSE) =>
             /\ mailbox' = mailbox
             /\ enq' = enq
             /\ st' = st
             /\ procTab' = procTab
             /\ links' = links
             /\ cont' = cont /\ cont[p] = NoCont
             /\ parent' = parent
             /\ proto' = proto]_vars

\* The first process has made a spawn that failed: one host call is counted,
\* no other process exists, nothing is in its channel or in its table.
C22_Witness ==
    /\ ops = 1
    /\ st = [q \in Procs |-> IF q = 1 THEN "wasm" ELSE "none"]
    /\ mailbox[1] = <<>>
    /\ hist[1] = <<>>
    /\ procTab[1] = <<>>
    /\ cont[1] = NoCont

\* C23: handling Link(tag, peer) with peer already in the links map changes
\* nothing: the map keeps its entries, the tag stored by the first Link
\* stays, and nothing is scheduled.
C23_RepeatedLinkIgnored ==
    [][\A p \in Procs :
          HandleLink(p) /\ Head(mailbox[p]).peer \in DOMAIN links[p] =>
             /\ links' = links
             /\ mailbox'[p] = Tail(mailbox[p])]_vars

\* A process has handled two Links for the same peer with different tags and
\* its links map holds the tag of the first.
C23_Witness ==
    \E p \in Procs : \E i, j \in 1..Len(hist[p]) :
        /\ i < j
        /\ hist[p][i].type = "Link" /\ hist[p][j].type = "Link"
        /\ hist[p][i].peer = hist[p][j].peer
        /\ hist[p][i].tag # hist[p][j].tag
        /\ hist[p][i].peer \in DOMAIN links[p]
        /\ links[p][hist[p][i].peer] = hist[p][i].tag

\* The Link at the head of the channel of p names the terminated process q,
\* which p has not in its links.
LateLink(p, q) ==
    /\ Selecting(p)
    /\ Head(mailbox[p]).type = "Link"
    /\ Head(mailbox[p]).peer = q
    /\ Terminated(q)
    /\ q \notin DOMAIN links[p]

\* The message mailbox of p holds a LinkDied of q.
FoundLinkDied(p, q) ==
    \E i \in 1..Len(msgs[p]) :
        msgs[p][i].type = "LinkDied" /\ msgs[p][i].peer = q

\* The step schedules a LinkDied of the peer to p itself.
SchedulesLinkDied(p) ==
    /\ Len(enq'[p]) = Len(enq[p]) + 1
    /\ LastSent(p).type = "LinkDied"
    /\ LastSent(p).peer = Head(mailbox[p]).peer

C25_UnlinkStopsNotification ==
    [][\A p \in Procs :
          /\ HandleUnLink(p) =>
                /\ Head(mailbox[p]).peer \notin DOMAIN links'[p]
                /\ mailbox'[p] = Tail(mailbox[p])
          /\ Dies(p) =>
                \A q \in Procs \ {p} :
                    q \notin DOMAIN links[p] /\ ReceiverExists(q) /\ st'[q] = st[q] =>
                        enq'[q] = enq[q] /\ mailbox'[q] = mailbox[q]
          /\ (HandleLinkDied(p) /\ Head(mailbox[p]).peer \notin DOMAIN links[p]) =>
                IF die[p]
                THEN st'[p] = "dead" /\ reason'[p] = "killed-by-link"
                ELSE msgs'[p] = Append(msgs[p], Head(mailbox[p]))]_vars

\* Process 1 linked to 2 and unlinked again; 2 ended before it handled its
\* UnLink, so its LinkDied came after the UnLink of 1: process 1 handled the
\* UnLink, has no links, and found the LinkDied among its messages.
C25_Witness ==
    /\ ~die[1]
    /\ hist[1] = <<Link(Some(1), 2), UnLink(2), LinkDied(2, Some(1), "normal")>>
    /\ links[1] = <<>>
    /\ msgs[1] = <<LinkDied(2, Some(1), "normal")>>
    /\ Terminated(2)

\* The step puts sig at the end of the signal mailbox of q.
Received(q, sig) ==
    /\ mailbox'[q] # <<>>
    /\ mailbox'[q][Len(mailbox'[q])] = sig
    /\ Len(mailbox'[q]) > Len(mailbox[q])

InSpawnOf(c) ==
    LET par == parent[c].id
    IN  cont[par].phase \in {1, 2} /\ cont[par].child = c

\* C27: a parent that terminates inside a linked Module::spawn, before the
\* child was handed to the scheduler (it can only do so during the yield,
\* where it handles the signals that were in its mailbox), takes the child
\* with it: afterwards the child has no receiver and no task, it never ran
\* Wasm code or handled a signal, and it never does later.
C27_ParentDeathAbortsSpawn ==
    [][\A c \in LinkedChildren :
          /\ (Dies(parent[c].id) /\ InSpawnOf(c)) =>
                /\ st[parent[c].id] = "select"
                /\ cont[parent[c].id].phase = 1
                /\ st[c] = "created"
                /\ hist[c] = <<>>
                /\ ~ReceiverExists(c)'
                /\ ~Live(c)'
          /\ (st[parent[c].id] = "dead" /\ proto[c] # SpawnOrder) =>
                /\ ~Live(c) /\ ~ReceiverExists(c)
                /\ ~Live(c)' /\ ~ReceiverExists(c)'
                /\ hist[c] = <<>> /\ hist'[c] = <<>>]_vars

\* The parent was sent a Kill before it called spawn with a link: it handled
\* the Kill during the yield, and the child was never started.
C27_Witness ==
    \E c \in LinkedChildren :
        /\ st[parent[c].id] = "dead"
        /\ reason[parent[c].id] = "killed"
        /\ proto[c] = <<"LinkParent">>
        /\ st[c] = "aborted"
        /\ hist[c] = <<>>

\* No UnLink of q is among the signals p has handled.
NeverUnlinked(p, q) == ~Occurs(UnLink(q), hist[p])

\* C28: the tags of a spawn link are asymmetric. A linked child that has
\* handled the Link of its spawn (and no UnLink of its parent) holds the
\* parent with the tag t of the spawn; a parent that has handled the Link of
\* the spawn (and no UnLink of the child) holds the child with no tag. So
\* the death of the parent reaches the started child as LinkDied(parent,
\* None, reason) and the death of the child reaches the parent as
\* LinkDied(child, t, reason).
C28_SpawnTagsAsymmetric ==
    [][\A c \in LinkedChildren :
          LET par == parent[c].id
          IN  /\ parent[c].link # None
              /\ (Live(c) /\ hist[c] # <<>> /\ NeverUnlinked(c, par)) =>
                    /\ par \in DOMAIN links[c]
                    /\ links[c][par] = parent[c].link
              /\ (Live(par) /\ Occurs(Link(None, c), hist[par])
                     /\ NeverUnlinked(par, c)) =>
                    /\ c \in DOMAIN links[par]
                    /\ links[par][c] = None
              /\ (Dies(par) /\ c \in DOMAIN links[par] /\ NeverUnlinked(par, c)
                     /\ Live(c)) =>
                    enq'[c] = Append(enq[c], LinkDied(par, None, reason'[par]))
              /\ (Dies(c) /\ par \in DOMAIN links[c] /\ NeverUnlinked(c, par)
                     /\ Live(par)) =>
                    enq'[par] = Append(enq[par],
                                       LinkDied(c, parent[c].link, reason'[c]))]_vars

\* A child spawned with tag 2 holds its parent with that tag, and the death
\* of the parent has reached it as a LinkDied without a tag.
C28_Witness ==
    \E c \in LinkedChildren :
        /\ parent[c].link = Some(2)
        /\ Live(c)
        /\ links[c] = Insert(<<>>, parent[c].id, Some(2))
        /\ st[parent[c].id] = "dead"
        /\ Occurs(LinkDied(parent[c].id, None, reason[parent[c].id]), mailbox[c])

\* a and b are linked: one of them holds the other in its links.
Adj(a, b) == a \in DOMAIN links[b] \/ b \in DOMAIN links[a]

\* The processes reached from the set R over at most n links.
RECURSIVE Reach(_, _)
Reach(R, n) ==
    IF n = 0 THEN R
    ELSE Reach(R \cup {b \in Procs : \E a \in R : Adj(a, b)}, n - 1)

\* The connected component of d.
Comp(d) == Reach({d}, MaxProcs)

\* The number of LinkDied of d in the log.
RECURSIVE LinkDiedFrom(_, _)
LinkDiedFrom(d, log) ==
    IF log = <<>> THEN 0
    ELSE (IF Head(log).type = "LinkDied" /\ Head(log).peer = d THEN 1 ELSE 0)
         + LinkDiedFrom(d, Tail(log))

\* C29: with die_when_link_dies left true everywhere, the death of a process
\* leads to the termination of every process of its connected component of
\* the link graph, under a fair scheduler; a terminated process stays
\* terminated, LinkDied of d is sent only in the step in which d terminates
\* and then once to each peer, and a living process has been sent at most
\* one LinkDied by each of its peers, so no more LinkDied are sent than the
\* graph has (directed) links.
C29_PropagationTerminates ==
    /\ \A d, q \in Procs :
          (Terminated(d) /\ q \in Comp(d)) ~> Terminated(q)
    /\ [](\A q \in Procs : Live(q) =>
             \A d \in Procs :
                /\ LinkDiedFrom(d, enq[q]) <= 1
                /\ LinkDiedFrom(d, enq[q]) = 1 => d \in DOMAIN links[q])
    /\ [][\A d \in Procs :
             /\ Terminated(d) => Terminated(d)'
             /\ \A q \in Procs : Live(q) /\ Live(q)' =>
                   /\ LinkDiedFrom(d, enq'[q]) <= LinkDiedFrom(d, enq[q]) + 1
                   /\ LinkDiedFrom(d, enq'[q]) > LinkDiedFrom(d, enq[q]) =>
                         Dies(d) /\ q \in DOMAIN links[d]]_vars

\* The three processes were linked in a cycle; one ended by itself and the
\* other two were killed by the link, each by the LinkDied of the first or
\* of the other.
C29_Witness ==
    /\ MaxProcs >= 3
    /\ reason[1] = "normal"
    /\ reason[2] = "killed-by-link"
    /\ reason[3] = "killed-by-link"
    /\ \A q \in 1..3 : st[q] = "dead"
    /\ ops = 0

\* The flag of the last DieWhenLinkDies among the signals handled, true (the
\* default of a new process) when there is none.
RECURSIVE LastFlag(_)
LastFlag(log) ==
    IF log = <<>> THEN TRUE
    ELSE IF log[Len(log)].type = "DieWhenLinkDies" THEN log[Len(log)].flag
    ELSE LastFlag(SubSeq(log, 1, Len(log) - 1))

\* C30: die_when_link_dies(flag) leaves the flag as it is and puts
\* DieWhenLinkDies(flag) at the end of the caller's own signal mailbox; the
\* flag changes only in the step that handles a DieWhenLinkDies, to the
\* value it carries; signals are handled in the order of the mailbox, so the
\* flag of a living process is the one of the last DieWhenLinkDies handled,
\* and a LinkDied is handled under the flag set by the DieWhenLinkDies that
\* were in the mailbox before it: it terminates the process when that flag
\* is true and becomes a message when it is false.
C30_FlagSetWhenHandled ==
    /\ [](\A p \in Procs : Live(p) =>
             /\ die[p] = LastFlag(hist[p])
             /\ enq[p] = hist[p] \o mailbox[p])
    /\ [][\A p \in Procs :
             /\ \A trap \in {0, 1} :
                   die_when_link_dies(p, trap) =>
                      /\ die' = die
                      /\ mailbox'[p] = Append(mailbox[p], DieWhenLinkDies(trap # 0))
             /\ die'[p] # die[p] =>
                   /\ HandleDieWhenLinkDies(p)
                   /\ die'[p] = Head(mailbox[p]).flag
             /\ HandleLinkDied(p) =>
                   IF LastFlag(hist[p])
                   THEN st'[p] = "dead" /\ reason'[p] = "killed-by-link"
                   ELSE /\ msgs'[p] = Append(msgs[p], Head(mailbox[p]))
                        /\ st'[p] = st[p]]_vars

\* A process has called die_when_link_dies(0) with the LinkDied of its
\* linked child already in its mailbox: the flag is still true and the
\* LinkDied is ahead of the DieWhenLinkDies.
C30_Witness ==
    \E c \in LinkedChildren :
        LET p == parent[c].id
        IN  /\ Live(p)
            /\ die[p]
            /\ st[c] = "dead"
            /\ mailbox[p] = <<LinkDied(c, parent[c].link, reason[c]),
                              DieWhenLinkDies(FALSE)>>


=============================================================================
